---- MODULE Spec2Model ----
(***************************************************************************)
(* MoodPlayl.ist client: the PKCE authenticator (src/src/spotifyAuth.js),  *)
(* the request executor spotifyFetch and the playlist orchestrator         *)
(* (src/src/spotifyService.js).                                            *)
(*                                                                         *)
(* Every async function is a frame with a program counter; one action runs *)
(* the code from one await to the next.  A frame that has returned to a    *)
(* caller frame (pc = "ret") is consumed by the caller's continuation      *)
(* before anything else may run: a promise's continuation is a microtask.  *)
(***************************************************************************)
EXTENDS Integers, Sequences, FiniteSets, TLC

VARIABLES store, now, top, au, fx, gp, log, net, ui

vars == <<store, now, top, au, fx, gp, log, net, ui>>

(* ------------------------------ bounds -------------------------------- *)
MaxTicks == 1
MaxHeld == 1
MaxNonce == 2
MaxRespTracks == 26
MaxTracks == 250

(* -------------------------- program constants ------------------------- *)
MsPerSec == 1000
SafetyMarginMs == 5000
DefaultExpiresIn == 3600
chunkSize == 100

Procs == {"p1"}
\* Two callers whose operations may overlap at their awaits.
Racers == {"p1", "p2"}

(* ------------------------- optional values ---------------------------- *)
\* localStorage.getItem gives null for a missing key; a value is <<v>>.
Absent == << >>
Some(v) == <<v>>
Has(o) == o # << >>
Val(o) == o[1]

(* --------------------------- credential store ------------------------- *)
AuthKeys == {"access_token", "refresh_token", "token_expiry", "code_verifier", "pkce_state"}
Keys == AuthKeys \cup {"app_pref"}
\* The keys that make the session: the tokens and their expiry.
SessionKeys == {"access_token", "refresh_token", "token_expiry"}

\* localStorage.clear() in place of the five removeItem calls.
clearAllTokensClearsStorage(s) == [k \in Keys |-> Absent]

\* Only the two PKCE keys are removed.
clearAllTokensKeepsSession(s) ==
    [k \in Keys |-> IF k \in {"code_verifier", "pkce_state"} THEN Absent ELSE s[k]]

\* The removeItem of pkce_state is left out.
clearAllTokensKeepsState(s) ==
    [k \in Keys |-> IF k \in AuthKeys \ {"pkce_state"} THEN Absent ELSE s[k]]

\* The removeItem of refresh_token is left out.
clearAllTokensKeepsRefresh(s) ==
    [k \in Keys |-> IF k \in AuthKeys \ {"refresh_token"} THEN Absent ELSE s[k]]

clearAllTokens(s) ==
    [k \in Keys |-> IF k \in AuthKeys THEN Absent ELSE s[k]]

getStoredAccessToken(s) == s["access_token"]

(* --------------------------- results ---------------------------------- *)
NoBody == [status |-> 0, id |-> Absent, url |-> Absent, items |-> << >>]
Pending == [done |-> FALSE, ok |-> FALSE, kind |-> "pending", tok |-> Absent, body |-> NoBody]
Ok(t, b) == [done |-> TRUE, ok |-> TRUE, kind |-> "ok", tok |-> t, body |-> b]
Err(k) == [done |-> TRUE, ok |-> FALSE, kind |-> k, tok |-> Absent, body |-> NoBody]
ErrStatus(k, st) == [done |-> TRUE, ok |-> FALSE, kind |-> k, tok |-> Absent,
                     body |-> [NoBody EXCEPT !.status = st]]

(* --------------------------- token endpoint --------------------------- *)
\* expires_in as the JSON value the server sent.
ExpiresInValues ==
    { [k |-> "num", v |-> 6], [k |-> "undefined", v |-> 0],
      [k |-> "null", v |-> 0], [k |-> "text", v |-> 0], [k |-> "empty", v |-> 0] }

\* Number(x): NaN for undefined and non-numeric text, 0 for null and "".
NumberIsFinite(x) == x.k \in {"num", "null", "empty"}
NumberOf(x) == IF x.k = "num" THEN x.v ELSE 0

expiresIn(x) == IF NumberIsFinite(x) THEN NumberOf(x) ELSE DefaultExpiresIn

\* A response of the token endpoint: transport failure, non-2xx, unreadable
\* body, or a JSON body with optional access_token / refresh_token.
TokenResponses(newAccess, newRefresh) ==
    { [net |-> FALSE, ok |-> FALSE, json |-> TRUE, at |-> Absent, rt |-> Absent,
       exp |-> [k |-> "undefined", v |-> 0]] }
    \cup { [net |-> TRUE, ok |-> FALSE, json |-> TRUE, at |-> Absent, rt |-> Absent,
            exp |-> [k |-> "undefined", v |-> 0]] }
    \cup { [net |-> TRUE, ok |-> TRUE, json |-> FALSE, at |-> Absent, rt |-> Absent,
            exp |-> [k |-> "undefined", v |-> 0]] }
    \cup { [net |-> TRUE, ok |-> TRUE, json |-> TRUE, at |-> Absent, rt |-> r,
            exp |-> [k |-> "undefined", v |-> 0]] : r \in {Absent, Some(newRefresh)} }
    \cup { [net |-> TRUE, ok |-> TRUE, json |-> TRUE, at |-> Some(newAccess), rt |-> r, exp |-> e] :
            r \in {Absent, Some(newRefresh)}, e \in ExpiresInValues }
\* No response received (yet).
NoResponse == [net |-> FALSE, ok |-> FALSE, json |-> FALSE, at |-> Absent, rt |-> Absent,
               exp |-> [k |-> "undefined", v |-> 0]]

(* ------------------------------ frames -------------------------------- *)
\* cv, ss, rs: exchangeCodeForToken's codeVerifier, storedState and returnedState;
\* again: this clearAllTokens directly follows another one.
\* hadSession: an access token was stored when handleSpotifyLogin began.
\* resp: the response of the token endpoint that the function has read.
\* navState, navChallenge: the state and code_challenge of the redirect URL.
AuIdle == [pc |-> "idle", fn |-> "none", cv |-> Absent, ss |-> Absent, rs |-> Absent,
           again |-> FALSE, hadSession |-> FALSE, navState |-> Absent, navChallenge |-> Absent, resp |-> NoResponse,
           res |-> Pending]
\* t0, e0, tok0, had: the time, the stored expiry, the token in hand and the
\* credential keys stored when the logical call started (kept for the
\* properties; the code does not read them).  obs: the debugCallback argument
\* of the debug-enabled spotifyFetch; seen: the stages it was given; warned:
\* the console warnings about throws of it.
FxIdle == [pc |-> "idle", ep |-> "none", uris |-> << >>, token |-> Absent, cur |-> Absent,
           retries |-> 0, res |-> Pending, t0 |-> 0, e0 |-> Absent, tok0 |-> Absent,
           had |-> {}, obs |-> "none", seen |-> << >>, warned |-> 0]

\* What generatePlaylist / addTracksToPlaylist give their caller: a playlist
\* result, nothing (addTracksToPlaylist returns undefined) or an Error.  An Error
\* has a message only: kind names its fixed text, cause the message of the error
\* it wraps, and tracksInsertedSoFar what it tells about insertions already
\* done (the code puts no such number in any message).
GpPending == [done |-> FALSE, ok |-> FALSE, kind |-> "none", cause |-> "none",
              tracksInsertedSoFar |-> Absent, name |-> << >>, url |-> Absent, tracks |-> 0]
Failure(kind, cause) == [GpPending EXCEPT !.done = TRUE, !.kind = kind, !.cause = cause]
Returns == [GpPending EXCEPT !.done = TRUE, !.ok = TRUE]
Playlist(name, url, tracks) == [Returns EXCEPT !.name = name, !.url = url, !.tracks = tracks]

\* The frame of generatePlaylist with the functions it awaits
\* (getRecommendedTracks, createNewPlaylist, addTracksToPlaylist), or of a
\* direct call of addTracksToPlaylist.  Kept for the properties: sent, the chunks
\* handed to the insertion calls so far; succeeded, how many of these calls
\* returned; sentName, the name in the body of the creation request;
\* chunkStart, the "chunk start" written to the console on a failed insertion;
\* at, the await after which the function returned or threw; had, the
\* session keys stored when the function was called.
GpIdle == [pc |-> "idle", at |-> "none", fn |-> "none", token |-> Absent, mood |-> << >>, me |-> Absent,
           trackUris |-> << >>, playlistId |-> Absent, playlistUrl |-> Absent, i |-> 0,
           sent |-> << >>, succeeded |-> 0, sentName |-> << >>, chunkStart |-> Absent,
           had |-> {}, res |-> GpPending]

\* The React state of the page: accessToken, loading, error and
\* playlistResult of App; selectedMood, isLoading and localError of MoodSelector.
\* Kept for the properties: pending, the handleGenerate suspended at its await;
\* clicks, the clicks on the generate button; invoked, the calls of
\* generatePlaylist the page made; thrown, the Error of the last failed one.
UiIdle == [accessToken |-> Absent, loading |-> FALSE, error |-> Absent, playlistResult |-> Absent,
           selectedMood |-> Absent, isLoading |-> FALSE, localError |-> Absent,
           pending |-> FALSE, clicks |-> 0, invoked |-> 0, thrown |-> Absent]

\* The log of a process: what its current operation did at its boundary.
\*   refreshCall  refreshAccessToken() was called
\*   token        a request was sent to the token endpoint
\*   granted      the token endpoint issued tok, valid for n ms
\*   dispatch     a resource request was sent with bearer token tok
RefreshCallEvent == [e |-> "refreshCall", what |-> "refresh", tok |-> Absent, uris |-> << >>, n |-> 0]
TokenEvent(grant, credential) ==
    [e |-> "token", what |-> grant, tok |-> credential, uris |-> << >>, n |-> 0]
GrantedEvent(resp) ==
    [e |-> "granted", what |-> "token", tok |-> resp.at, uris |-> << >>,
     n |-> expiresIn(resp.exp) * MsPerSec]
DispatchEvent(ep, bearer, uris) ==
    [e |-> "dispatch", what |-> ep, tok |-> bearer, uris |-> uris, n |-> Len(uris)]

\* A nested frame has returned and its caller has not resumed yet.
Busy(p) ==
    \/ au[p].pc = "ret" /\ top[p] # "auth"
    \/ fx[p].pc = "ret" /\ top[p] = "gen" /\ gp[p].pc # "ret"
Quiet == \A p \in DOMAIN top : ~Busy(p)
\* p runs no top-level operation (a finished one leaves its result behind).
Free(p) ==
    \/ top[p] = "none"
    \/ top[p] = "auth" /\ au[p].pc = "ret"
    \/ top[p] = "fetch" /\ fx[p].pc = "ret"
    \/ top[p] = "gen" /\ gp[p].pc = "ret"

Init ==
    /\ store = [k \in Keys |-> IF k = "app_pref" THEN Some(1) ELSE Absent]
    /\ now = 0
    /\ top = [p \in Procs |-> "none"]
    /\ au = [p \in Procs |-> AuIdle]
    /\ fx = [p \in Procs |-> FxIdle]
    /\ gp = [p \in Procs |-> GpIdle]
    /\ log = [p \in Procs |-> << >>]
    /\ net = [p \in Procs |-> {}]
    /\ ui = UiIdle

(* ---------------------- tokens the server issues ---------------------- *)
\* Tokens are opaque: only equality matters.  A newly issued token differs from
\* every token the client still holds or has logged; it is named by the least
\* number that is free.
LogTokens(kinds) ==
    UNION { { log[p][i].tok : i \in { j \in 1..Len(log[p]) : log[p][j].e \in kinds } } : p \in DOMAIN log }
AccessInUse ==
    {store["access_token"]} \cup LogTokens({"dispatch", "granted"})
      \cup UNION { {fx[p].token, fx[p].cur, fx[p].tok0, au[p].res.tok} : p \in DOMAIN fx }
RefreshInUse == {store["refresh_token"]} \cup LogTokens({"token"})
LeastFree(used) == CHOOSE n \in 1..(Cardinality(used) + 1) :
                      /\ Some(n) \notin used
                      /\ \A m \in 1..(n - 1) : Some(m) \in used
FreshAccess == LeastFree(AccessInUse)
FreshRefresh == LeastFree(RefreshInUse)

(* --------------------------- PKCE helpers ----------------------------- *)
\* base64urlencode(sha256(verifier)): one-way, injective on the verifiers used.
S256(v) == 2 * v + 1

(* ------------------------------ clock --------------------------------- *)
Tick ==
    /\ Quiet
    /\ now < MaxTicks * MsPerSec
    /\ now' = now + MsPerSec
    /\ UNCHANGED <<store, top, au, fx, gp, log, net, ui>>

(* ---------------------------- clearAllTokens -------------------------- *)
\* logout / "Clear & Retry": clearAllTokens called from the UI.
ClearAll(p) ==
    /\ Quiet /\ Free(p)
    /\ store' = clearAllTokens(store)
    /\ top' = [top EXCEPT ![p] = "auth"]
    /\ au' = [au EXCEPT ![p] = [AuIdle EXCEPT !.pc = "ret", !.fn = "clear",
                                          !.again = (au[p].fn = "clear"),
                                          !.res = Ok(Absent, NoBody)]]
    /\ fx' = [fx EXCEPT ![p] = FxIdle]
    /\ gp' = [gp EXCEPT ![p] = GpIdle]
    /\ net' = [net EXCEPT ![p] = {}]
    /\ log' = [log EXCEPT ![p] = << >>]
    /\ UNCHANGED <<now, ui>>

(* ---------------------------- handleSpotifyLogin ---------------------- *)
StartLogin(p) ==
    /\ Quiet /\ Free(p)
    /\ \E v \in 1..MaxNonce :
         /\ store' = [clearAllTokens(store) EXCEPT !["code_verifier"] = Some(v)]
         /\ au' = [au EXCEPT ![p] = [AuIdle EXCEPT !.pc = "hash", !.fn = "login", !.cv = Some(v),
                                                  !.hadSession = Has(store["access_token"])]]
    /\ top' = [top EXCEPT ![p] = "auth"]
    /\ fx' = [fx EXCEPT ![p] = FxIdle]
    /\ gp' = [gp EXCEPT ![p] = GpIdle]
    /\ net' = [net EXCEPT ![p] = {}]
    /\ log' = [log EXCEPT ![p] = << >>]
    /\ UNCHANGED <<now, ui>>

LoginRedirect(p) ==
    /\ Quiet
    /\ au[p].pc = "hash"
    /\ \E st \in 1..MaxNonce :
         /\ store' = [store EXCEPT !["pkce_state"] = Some(st)]
         /\ au' = [au EXCEPT ![p] = [@ EXCEPT !.pc = "ret", !.navState = Some(st),
                                             !.navChallenge = Some(S256(Val(au[p].cv))),
                                             !.res = Ok(Absent, NoBody)]]
    /\ UNCHANGED <<now, ui, top, fx, gp, log, net>>

(* ---------------------------- exchangeCodeForToken -------------------- *)
\* Lines 92-118: up to the await of the token request.  Gives the new store, the
\* frame and the log events.
ExchangeFrame(s, returnedState) ==
    [AuIdle EXCEPT !.fn = "exchange", !.cv = s["code_verifier"], !.ss = s["pkce_state"],
                   !.rs = returnedState]

ExchangeBeginNoStateCheck(s, returnedState) ==
    LET fr == ExchangeFrame(s, returnedState) IN
    IF ~Has(fr.cv)
      THEN [store |-> clearAllTokens(s),
            au |-> [fr EXCEPT !.pc = "ret", !.res = Err("MissingVerifier")],
            ev |-> << >>]
      ELSE [store |-> s,
            au |-> [fr EXCEPT !.pc = "tokenReq"],
            ev |-> << TokenEvent("authorization_code", fr.cv) >>]

ExchangeBegin(s, returnedState) ==
    LET fr == ExchangeFrame(s, returnedState) IN
    IF ~Has(fr.cv)
      THEN [store |-> clearAllTokens(s),
            au |-> [fr EXCEPT !.pc = "ret", !.res = Err("MissingVerifier")],
            ev |-> << >>]
    ELSE IF Has(fr.ss) /\ Has(fr.rs) /\ fr.ss # fr.rs
      THEN [store |-> clearAllTokens(s),
            au |-> [fr EXCEPT !.pc = "ret", !.res = Err("StateMismatch")],
            ev |-> << >>]
      ELSE [store |-> s,
            au |-> [fr EXCEPT !.pc = "tokenReq"],
            ev |-> << TokenEvent("authorization_code", fr.cv) >>]

\* Lines 132-136 and 176-179: store the issued tokens and the expiry.
\* The lifetime is added to the clock as it is, in seconds.
StoreTokensInSeconds(s, resp, t) ==
    [s EXCEPT !["access_token"] = resp.at,
              !["refresh_token"] = IF Has(resp.rt) THEN resp.rt ELSE @,
              !["token_expiry"] = Some(t + expiresIn(resp.exp))]

\* The refresh token is set from the response whether it carries one or not.
StoreTokensOverwritesRefresh(s, resp, t) ==
    [s EXCEPT !["access_token"] = resp.at,
              !["refresh_token"] = resp.rt,
              !["token_expiry"] = Some(t + expiresIn(resp.exp) * MsPerSec)]

\* An expiry already stored is kept when it is the later one.
StoreTokensKeepsLaterExpiry(s, resp, t) ==
    LET e == t + expiresIn(resp.exp) * MsPerSec IN
    [s EXCEPT !["access_token"] = resp.at,
              !["refresh_token"] = IF Has(resp.rt) THEN resp.rt ELSE @,
              !["token_expiry"] = IF Has(@) /\ Val(@) > e THEN @ ELSE Some(e)]

StoreTokens(s, resp, t) ==
    [s EXCEPT !["access_token"] = resp.at,
              !["refresh_token"] = IF Has(resp.rt) THEN resp.rt ELSE @,
              !["token_expiry"] = Some(t + expiresIn(resp.exp) * MsPerSec)]

\* Lines 120-142: the store and the result once the token endpoint has answered.
ExchangeEndKeepsVerifier(s, resp, t) ==
    IF ~resp.net THEN [store |-> s, res |-> Err("Network")]
    ELSE IF ~resp.ok THEN [store |-> clearAllTokens(s), res |-> Err("TokenExchangeFailed")]
    ELSE IF ~resp.json THEN [store |-> s, res |-> Err("Unreadable")]
    ELSE IF ~Has(resp.at) THEN [store |-> clearAllTokens(s), res |-> Err("NoTokenReturned")]
    ELSE [store |-> StoreTokens(s, resp, t), res |-> Ok(resp.at, NoBody)]

ExchangeEnd(s, resp, t) ==
    IF ~resp.net THEN [store |-> s, res |-> Err("Network")]
    ELSE IF ~resp.ok THEN [store |-> clearAllTokens(s), res |-> Err("TokenExchangeFailed")]
    ELSE IF ~resp.json THEN [store |-> s, res |-> Err("Unreadable")]
    ELSE IF ~Has(resp.at) THEN [store |-> clearAllTokens(s), res |-> Err("NoTokenReturned")]
    ELSE [store |-> [StoreTokens(s, resp, t) EXCEPT !["code_verifier"] = Absent,
                                                   !["pkce_state"] = Absent],
          res |-> Ok(resp.at, NoBody)]

StartExchange(p) ==
    /\ Quiet /\ Free(p)
    /\ \E returnedState \in {Absent} \cup {Some(x) : x \in 1..MaxNonce} :
         LET b == ExchangeBegin(store, returnedState) IN
         /\ store' = b.store
         /\ au' = [au EXCEPT ![p] = b.au]
         /\ log' = [log EXCEPT ![p] = b.ev]
    /\ top' = [top EXCEPT ![p] = "auth"]
    /\ fx' = [fx EXCEPT ![p] = FxIdle]
    /\ gp' = [gp EXCEPT ![p] = GpIdle]
    /\ net' = [net EXCEPT ![p] = {}]
    /\ UNCHANGED <<now, ui>>

ExchangeResponse(p) ==
    /\ Quiet
    /\ au[p].pc = "tokenReq" /\ au[p].fn = "exchange"
    /\ \E resp \in TokenResponses(FreshAccess, FreshRefresh) :
         LET e == ExchangeEnd(store, resp, now) IN
         /\ store' = e.store
         /\ au' = [au EXCEPT ![p] = [@ EXCEPT !.pc = "ret", !.resp = resp, !.res = e.res]]
         /\ log' = [log EXCEPT ![p] = IF e.res.ok THEN Append(@, GrantedEvent(resp)) ELSE @]
    /\ UNCHANGED <<now, ui, top, fx, gp, net>>

(* ---------------------------- refreshAccessToken ---------------------- *)
\* Lines 149-165: up to the await of the token request.
\* Lines 149-165 without the check of lines 150-153: the request is sent
\* with whatever getItem gave.
RefreshBeginSendsAnyway(s) ==
    [store |-> s,
     au |-> [AuIdle EXCEPT !.pc = "tokenReq", !.fn = "refresh"],
     ev |-> << RefreshCallEvent, TokenEvent("refresh_token", s["refresh_token"]) >>]

RefreshBegin(s) ==
    LET refreshToken == s["refresh_token"] IN
    IF ~Has(refreshToken)
      THEN [store |-> clearAllTokens(s),
            au |-> [AuIdle EXCEPT !.pc = "ret", !.fn = "refresh", !.res = Err("NoRefreshToken")],
            ev |-> << RefreshCallEvent >>]
      ELSE [store |-> s,
            au |-> [AuIdle EXCEPT !.pc = "tokenReq", !.fn = "refresh"],
            ev |-> << RefreshCallEvent, TokenEvent("refresh_token", refreshToken) >>]

\* Lines 167-181.
RefreshEndKeepsOnFailure(s, resp, t) ==
    IF ~resp.net THEN [store |-> s, res |-> Err("Network")]
    ELSE IF ~resp.ok THEN [store |-> s, res |-> Err("RefreshFailed")]
    ELSE IF ~resp.json THEN [store |-> s, res |-> Err("Unreadable")]
    ELSE IF ~Has(resp.at) THEN [store |-> clearAllTokens(s), res |-> Err("RefreshFailed")]
    ELSE [store |-> StoreTokens(s, resp, t), res |-> Ok(resp.at, NoBody)]

RefreshEnd(s, resp, t) ==
    IF ~resp.net THEN [store |-> s, res |-> Err("Network")]
    ELSE IF ~resp.ok THEN [store |-> clearAllTokens(s), res |-> Err("RefreshFailed")]
    ELSE IF ~resp.json THEN [store |-> s, res |-> Err("Unreadable")]
    ELSE IF ~Has(resp.at) THEN [store |-> clearAllTokens(s), res |-> Err("RefreshFailed")]
    ELSE [store |-> StoreTokens(s, resp, t), res |-> Ok(resp.at, NoBody)]

\* refreshAccessToken called on its own.
StartRefresh(p) ==
    /\ Quiet /\ Free(p)
    /\ LET b == RefreshBegin(store) IN
         /\ store' = b.store
         /\ au' = [au EXCEPT ![p] = b.au]
         /\ log' = [log EXCEPT ![p] = b.ev]
    /\ top' = [top EXCEPT ![p] = "auth"]
    /\ fx' = [fx EXCEPT ![p] = FxIdle]
    /\ gp' = [gp EXCEPT ![p] = GpIdle]
    /\ net' = [net EXCEPT ![p] = {}]
    /\ UNCHANGED <<now, ui>>

RefreshResponse(p) ==
    /\ Quiet
    /\ au[p].pc = "tokenReq" /\ au[p].fn = "refresh"
    /\ \E resp \in TokenResponses(FreshAccess, FreshRefresh) :
         LET e == RefreshEnd(store, resp, now) IN
         /\ store' = e.store
         /\ au' = [au EXCEPT ![p] = [@ EXCEPT !.pc = "ret", !.resp = resp, !.res = e.res]]
         /\ log' = [log EXCEPT ![p] = IF e.res.ok THEN Append(@, GrantedEvent(resp)) ELSE @]
    /\ UNCHANGED <<now, ui, top, fx, gp, net>>

(* ------------------------------ resource API -------------------------- *)
\* What the upstream may answer on an endpoint: no answer at all (net = FALSE)
\* or a status with a body.
Statuses == {200, 204, 401, 403, 404, 500}

\* Items of a list response: a track or artist with its id / uri, 0 when the
\* item carries none.
Ids(n) == [i \in 1..n |-> i]
TrackLists == { << >>, <<0>>, <<1, 0, 2>>, Ids(MaxRespTracks) }

Bodies(ep) ==
    IF ep = "me" THEN { [NoBody EXCEPT !.id = i] : i \in {Absent, Some(1)} }
    ELSE IF ep = "recommendations" THEN { [NoBody EXCEPT !.items = l] : l \in TrackLists }
    ELSE IF ep = "create"
      THEN { [NoBody EXCEPT !.id = i, !.url = u] : i \in {Absent, Some(1)}, u \in {Absent, Some(1)} }
    ELSE { NoBody }

ApiResponses(ep) ==
    { [net |-> FALSE, status |-> 0, body |-> NoBody] }
    \cup { [net |-> TRUE, status |-> st, body |-> NoBody] : st \in Statuses \ {200} }
    \cup { [net |-> TRUE, status |-> 200, body |-> [b EXCEPT !.status = 200]] : b \in Bodies(ep) }

(* ------------------------------ spotifyFetch -------------------------- *)
\* Line 39: Date.now() > parseInt(expiry, 10) - 5000.
NearExpiryNoMargin(s, t) ==
    Has(s["token_expiry"]) /\ t > Val(s["token_expiry"])

NearExpiry(s, t) ==
    Has(s["token_expiry"]) /\ t > Val(s["token_expiry"]) - SafetyMarginMs

\* Lines 37-64: the expiry check, then the dispatch, with currentToken = f.cur.
FetchExpiry(s, f, t) ==
    IF NearExpiry(s, t)
      THEN LET b == RefreshBegin(s) IN
           [store |-> b.store, au |-> b.au, fx |-> [f EXCEPT !.pc = "rf2"], ev |-> b.ev]
      ELSE [store |-> s, au |-> AuIdle, fx |-> [f EXCEPT !.pc = "net"],
            ev |-> << DispatchEvent(f.ep, f.cur, f.uris) >>]

\* Lines 26-35 with the operands of || swapped: the stored token comes first.
FetchBeginStoredFirst(s, f, t) ==
    LET currentToken == IF Has(getStoredAccessToken(s)) THEN getStoredAccessToken(s)
                        ELSE f.token IN
    IF ~Has(currentToken)
      THEN LET b == RefreshBegin(s) IN
           [store |-> b.store, au |-> b.au, fx |-> [f EXCEPT !.pc = "rf1", !.cur = Absent],
            ev |-> b.ev]
      ELSE FetchExpiry(s, [f EXCEPT !.cur = currentToken], t)

\* Lines 26-35: resolve the token, then go on to the expiry check.
FetchBegin(s, f, t) ==
    LET currentToken == IF Has(f.token) THEN f.token ELSE getStoredAccessToken(s) IN
    IF ~Has(currentToken)
      THEN LET b == RefreshBegin(s) IN
           [store |-> b.store, au |-> b.au, fx |-> [f EXCEPT !.pc = "rf1", !.cur = Absent],
            ev |-> b.ev]
      ELSE FetchExpiry(s, [f EXCEPT !.cur = currentToken], t)

\* A call of spotifyFetch(url, token, options): the frame of the first attempt.
FetchCall(s, ep, token, uris, t) ==
    [FxIdle EXCEPT !.ep = ep, !.token = token, !.uris = uris, !.t0 = t,
                   !.e0 = s["token_expiry"],
                   !.had = { k \in SessionKeys : Has(s[k]) },
                   !.tok0 = IF Has(token) THEN token ELSE getStoredAccessToken(s)]

\* Lines 30-34: the refresh for a missing token has returned with result r.
AfterRefresh1(s, f, r, t) ==
    IF r.ok
      THEN FetchExpiry(s, [f EXCEPT !.cur = r.tok], t)
      ELSE [store |-> clearAllTokens(s), au |-> AuIdle,
            fx |-> [f EXCEPT !.pc = "ret", !.res = Err("NoToken")], ev |-> << >>]

\* Lines 41-45 with the result of the refresh dropped: the request goes out
\* with the token resolved before.
AfterRefresh2KeepsToken(s, f, r, t) ==
    IF r.ok
      THEN [store |-> s, au |-> AuIdle, fx |-> [f EXCEPT !.pc = "net"],
            ev |-> << DispatchEvent(f.ep, f.cur, f.uris) >>]
      ELSE [store |-> clearAllTokens(s), au |-> AuIdle,
            fx |-> [f EXCEPT !.pc = "ret", !.res = Err("SessionExpired")], ev |-> << >>]

\* Lines 41-45: the refresh before expiry has returned with result r.
AfterRefresh2(s, f, r, t) ==
    IF r.ok
      THEN [store |-> s, au |-> AuIdle, fx |-> [f EXCEPT !.pc = "net", !.cur = r.tok],
            ev |-> << DispatchEvent(f.ep, r.tok, f.uris) >>]
      ELSE [store |-> clearAllTokens(s), au |-> AuIdle,
            fx |-> [f EXCEPT !.pc = "ret", !.res = Err("SessionExpired")], ev |-> << >>]

\* Lines 94-108: a response that is not ok.
ClassifyClearsAlways(s, status) ==
    IF status = 403 THEN [store |-> clearAllTokens(s), res |-> ErrStatus("Forbidden", status)]
    ELSE IF status = 404 THEN [store |-> clearAllTokens(s), res |-> ErrStatus("NotFound", status)]
    ELSE [store |-> clearAllTokens(s), res |-> ErrStatus("Upstream", status)]

\* The branch for 404 is left out: it falls to the generic error.
ClassifyWithoutNotFound(s, status) ==
    IF status = 403 THEN [store |-> clearAllTokens(s), res |-> ErrStatus("Forbidden", status)]
    ELSE [store |-> s, res |-> ErrStatus("Upstream", status)]

Classify(s, status) ==
    IF status = 403 THEN [store |-> clearAllTokens(s), res |-> ErrStatus("Forbidden", status)]
    ELSE IF status = 404 THEN [store |-> s, res |-> ErrStatus("NotFound", status)]
    ELSE [store |-> s, res |-> ErrStatus("Upstream", status)]

ResponseOk(status) == status >= 200 /\ status <= 299

\* Line 71: the condition of the single retry.
ShouldRetryAlways(status, retries) == status = 401

\* A second retry is allowed.
ShouldRetryTwice(status, retries) == status = 401 /\ retries <= 1

ShouldRetry(status, retries) == status = 401 /\ retries = 0

\* Lines 62-113: the upstream has answered (or not) the dispatched request.
AfterResponse(s, f, r, t) ==
    IF ~r.net
      THEN [store |-> s, au |-> AuIdle,
            fx |-> [f EXCEPT !.pc = "ret", !.res = Err("Network")], ev |-> << >>]
    ELSE IF ShouldRetry(r.status, f.retries)
      THEN LET b == RefreshBegin(s) IN
           [store |-> b.store, au |-> b.au, fx |-> [f EXCEPT !.pc = "rf3"], ev |-> b.ev]
    ELSE IF r.status = 204
      THEN [store |-> s, au |-> AuIdle,
            fx |-> [f EXCEPT !.pc = "ret", !.res = Ok(Absent, [NoBody EXCEPT !.status = 204])],
            ev |-> << >>]
    ELSE IF ~ResponseOk(r.status)
      THEN LET c == Classify(s, r.status) IN
           [store |-> c.store, au |-> AuIdle,
            fx |-> [f EXCEPT !.pc = "ret", !.res = c.res], ev |-> << >>]
      ELSE [store |-> s, au |-> AuIdle,
            fx |-> [f EXCEPT !.pc = "ret", !.res = Ok(Absent, r.body)], ev |-> << >>]

\* Line 74 with retries passed on as it is.
RetryCallKeepsCount(f, newToken) == [f EXCEPT !.token = newToken]

\* Line 74: spotifyFetch(url, newToken, options, retries + 1).
RetryCall(f, newToken) == [f EXCEPT !.token = newToken, !.retries = @ + 1]

\* Lines 72-78: the refresh after a 401 has returned with result r; on success
\* the call is made again with the new token.
AfterRefresh3(s, f, r, t) ==
    IF r.ok
      THEN FetchBegin(s, RetryCall(f, r.tok), t)
      ELSE [store |-> clearAllTokens(s), au |-> AuIdle,
            fx |-> [f EXCEPT !.pc = "ret", !.res = Err("SessionExpired")], ev |-> << >>]

\* The endpoints of the dispatches among the events ev.
Dispatched(ev) == { ev[i].what : i \in { j \in 1..Len(ev) : ev[j].e = "dispatch" } }

\* One stretch of spotifyFetch has run for p with outcome b.
Resume(p, b) ==
    /\ store' = b.store
    /\ au' = [au EXCEPT ![p] = b.au]
    /\ fx' = [fx EXCEPT ![p] = b.fx]
    /\ log' = [log EXCEPT ![p] = @ \o b.ev]
    /\ net' = [net EXCEPT ![p] = @ \cup Dispatched(b.ev)]

Returned(p, site) == fx[p].pc = site /\ au[p].pc = "ret" /\ top[p] # "auth"

FetchRefreshed1(p) ==
    /\ Returned(p, "rf1")
    /\ Resume(p, AfterRefresh1(store, fx[p], au[p].res, now))
    /\ UNCHANGED <<now, ui, top, gp>>

FetchRefreshed2(p) ==
    /\ Returned(p, "rf2")
    /\ Resume(p, AfterRefresh2(store, fx[p], au[p].res, now))
    /\ UNCHANGED <<now, ui, top, gp>>

FetchResponse(p) ==
    /\ Quiet
    /\ fx[p].pc = "net"
    /\ \E r \in ApiResponses(fx[p].ep) : Resume(p, AfterResponse(store, fx[p], r, now))
    /\ UNCHANGED <<now, ui, top, gp>>

FetchRefreshed3(p) ==
    /\ Returned(p, "rf3")
    /\ Resume(p, AfterRefresh3(store, fx[p], au[p].res, now))
    /\ UNCHANGED <<now, ui, top, gp>>

\* The token a caller passes: none, or one it was given earlier (the UI keeps the
\* token of the login in component state), current or stale.
HeldTokens == {Absent} \cup {Some(x) : x \in 1..MaxHeld}

\* A call of spotifyFetch from a function of the service: the first stretch.
Call(p, ep, token, uris) ==
    LET b == FetchBegin(store, FetchCall(store, ep, token, uris, now), now) IN
    /\ store' = b.store
    /\ au' = [au EXCEPT ![p] = b.au]
    /\ fx' = [fx EXCEPT ![p] = b.fx]
    /\ log' = [log EXCEPT ![p] = b.ev]

\* getCurrentUserId(token): spotifyFetch('/me', token) called from outside.
StartFetch(p) ==
    /\ Quiet /\ Free(p)
    /\ \E token \in HeldTokens :
         /\ Call(p, "me", token, << >>)
         /\ net' = [net EXCEPT ![p] = Dispatched(log'[p])]
    /\ top' = [top EXCEPT ![p] = "fetch"]
    /\ gp' = [gp EXCEPT ![p] = GpIdle]
    /\ UNCHANGED <<now, ui>>

\* p has not run anything yet: where one call on a session is followed.
Fresh(p) == top[p] = "none"

(* ----------------- spotifyFetch with a diagnostic observer ------------ *)
\* The debug-enabled spotifyFetch (lines 264-342): the steps of lines 25-113
\* with makeDebug called before the dispatch and on what comes back.
\* The debugCallback argument: not a function, a function that records what
\* it is given, a function that throws whenever it is called.
Observers == {"none", "recording", "throwing"}

\* An exception leaves spotifyFetch: the promise is rejected with it.
Thrown(s, f) ==
    [store |-> s, au |-> AuIdle, fx |-> [f EXCEPT !.pc = "ret", !.res = Err("Observer")],
     ev |-> << >>]

\* Lines 265-267 without the try / catch: a throw of the observer leaves
\* makeDebug.
makeDebugUncaught(f, stage) ==
    CASE f.obs = "none" -> [fx |-> f, thrown |-> FALSE]
      [] f.obs = "recording" -> [fx |-> [f EXCEPT !.seen = Append(@, stage)], thrown |-> FALSE]
      [] OTHER -> [fx |-> f, thrown |-> TRUE]

\* Lines 265-267: the observer is called if it is a function; what it throws is
\* caught and written to the console.
makeDebug(f, stage) ==
    CASE f.obs = "none" -> [fx |-> f, thrown |-> FALSE]
      [] f.obs = "recording" -> [fx |-> [f EXCEPT !.seen = Append(@, stage)], thrown |-> FALSE]
      [] OTHER -> [fx |-> [f EXCEPT !.warned = @ + 1], thrown |-> FALSE]

\* Lines 280-291: the request is built, shown to the observer and dispatched.
DebugDispatch(s, f) ==
    LET d == makeDebug(f, "request:prepare") IN
    IF d.thrown THEN Thrown(s, d.fx)
    ELSE [store |-> s, au |-> AuIdle, fx |-> [d.fx EXCEPT !.pc = "net"],
          ev |-> << DispatchEvent(f.ep, f.cur, f.uris) >>]

\* Lines 275-291: the expiry check, then the dispatch, with currentToken = f.cur.
DebugFetchExpiry(s, f, t) ==
    IF NearExpiry(s, t)
      THEN LET b == RefreshBegin(s) IN
           [store |-> b.store, au |-> b.au, fx |-> [f EXCEPT !.pc = "rf2"], ev |-> b.ev]
      ELSE DebugDispatch(s, f)

\* Lines 269-272: resolve the token, then go on to the expiry check.
DebugFetchBegin(s, f, t) ==
    LET currentToken == IF Has(f.token) THEN f.token ELSE getStoredAccessToken(s) IN
    IF ~Has(currentToken)
      THEN LET b == RefreshBegin(s) IN
           [store |-> b.store, au |-> b.au, fx |-> [f EXCEPT !.pc = "rf1", !.cur = Absent],
            ev |-> b.ev]
      ELSE DebugFetchExpiry(s, [f EXCEPT !.cur = currentToken], t)

\* spotifyFetch(url, token, options, 0, debugCallback): the frame of the call.
DebugFetchCall(s, ep, token, uris, t, o) ==
    [FetchCall(s, ep, token, uris, t) EXCEPT !.obs = o]

\* Line 271: the refresh for a missing token has returned with result r.
DebugAfterRefresh1(s, f, r, t) ==
    IF r.ok
      THEN DebugFetchExpiry(s, [f EXCEPT !.cur = r.tok], t)
      ELSE [store |-> clearAllTokens(s), au |-> AuIdle,
            fx |-> [f EXCEPT !.pc = "ret", !.res = Err("NoToken")], ev |-> << >>]

\* Line 277: the refresh before expiry has returned with result r.
DebugAfterRefresh2(s, f, r, t) ==
    IF r.ok
      THEN DebugDispatch(s, [f EXCEPT !.cur = r.tok])
      ELSE [store |-> clearAllTokens(s), au |-> AuIdle,
            fx |-> [f EXCEPT !.pc = "ret", !.res = Err("SessionExpired")], ev |-> << >>]

\* Lines 326-339: a response that is not ok is shown to the observer once
\* more, then classified.
DebugNotOk(s, f, status) ==
    LET d == makeDebug(f, "response:error-final") IN
    IF d.thrown THEN Thrown(s, d.fx)
    ELSE LET c == Classify(s, status) IN
         [store |-> c.store, au |-> AuIdle,
          fx |-> [d.fx EXCEPT !.pc = "ret", !.res = c.res], ev |-> << >>]

\* Lines 292-341: the upstream has answered (or not) the dispatched request.
DebugAfterResponse(s, f, r, t) ==
    IF ~r.net
      THEN LET d == makeDebug(f, "response:error") IN
           IF d.thrown THEN Thrown(s, d.fx)
           ELSE [store |-> s, au |-> AuIdle,
                 fx |-> [d.fx EXCEPT !.pc = "ret", !.res = Err("Network")], ev |-> << >>]
    ELSE LET d == makeDebug(f, "response:received") IN
         IF d.thrown THEN Thrown(s, d.fx)
         ELSE IF ShouldRetry(r.status, f.retries)
           THEN LET b == RefreshBegin(s) IN
                [store |-> b.store, au |-> b.au, fx |-> [d.fx EXCEPT !.pc = "rf3"], ev |-> b.ev]
         ELSE IF r.status = 204
           THEN [store |-> s, au |-> AuIdle,
                 fx |-> [d.fx EXCEPT !.pc = "ret",
                                     !.res = Ok(Absent, [NoBody EXCEPT !.status = 204])],
                 ev |-> << >>]
         ELSE IF ~ResponseOk(r.status) THEN DebugNotOk(s, d.fx, r.status)
         ELSE [store |-> s, au |-> AuIdle,
               fx |-> [d.fx EXCEPT !.pc = "ret", !.res = Ok(Absent, r.body)], ev |-> << >>]

\* Lines 315-321: the refresh after a 401 has returned with result r; on success
\* the call is made again with the new token and the same observer.
DebugAfterRefresh3(s, f, r, t) ==
    IF r.ok
      THEN DebugFetchBegin(s, RetryCall(f, r.tok), t)
      ELSE [store |-> clearAllTokens(s), au |-> AuIdle,
            fx |-> [f EXCEPT !.pc = "ret", !.res = Err("SessionExpired")], ev |-> << >>]

\* getCurrentUserId(token, debugCallback), line 347.
StartDebugFetch(p) ==
    /\ Quiet /\ Fresh(p)
    /\ \E token \in HeldTokens, o \in Observers :
         LET b == DebugFetchBegin(store, DebugFetchCall(store, "me", token, << >>, now, o), now) IN
         /\ store' = b.store
         /\ au' = [au EXCEPT ![p] = b.au]
         /\ fx' = [fx EXCEPT ![p] = b.fx]
         /\ log' = [log EXCEPT ![p] = b.ev]
         /\ net' = [net EXCEPT ![p] = Dispatched(b.ev)]
    /\ top' = [top EXCEPT ![p] = "fetch"]
    /\ UNCHANGED <<now, ui, gp>>

DebugFetchRefreshed1(p) ==
    /\ Returned(p, "rf1")
    /\ Resume(p, DebugAfterRefresh1(store, fx[p], au[p].res, now))
    /\ UNCHANGED <<now, ui, top, gp>>

DebugFetchRefreshed2(p) ==
    /\ Returned(p, "rf2")
    /\ Resume(p, DebugAfterRefresh2(store, fx[p], au[p].res, now))
    /\ UNCHANGED <<now, ui, top, gp>>

DebugFetchResponse(p) ==
    /\ Quiet
    /\ fx[p].pc = "net"
    /\ \E r \in ApiResponses(fx[p].ep) : Resume(p, DebugAfterResponse(store, fx[p], r, now))
    /\ UNCHANGED <<now, ui, top, gp>>

DebugFetchRefreshed3(p) ==
    /\ Returned(p, "rf3")
    /\ Resume(p, DebugAfterRefresh3(store, fx[p], au[p].res, now))
    /\ UNCHANGED <<now, ui, top, gp>>

(* ------------------------------ moods --------------------------------- *)
\* Strings are sequences of characters; the letters that have two cases.
CasePairs == { <<"a", "A">>, <<"c", "C">>, <<"d", "D">>, <<"e", "E">>, <<"g", "G">>,
               <<"h", "H">>, <<"i", "I">>, <<"l", "L">>, <<"m", "M">>, <<"n", "N">>,
               <<"p", "P">>, <<"r", "R">>, <<"s", "S">>, <<"t", "T">>, <<"u", "U">>,
               <<"x", "X">>, <<"y", "Y">> }
charToUpperCase(ch) ==
    IF \E q \in CasePairs : q[1] = ch THEN (CHOOSE q \in CasePairs : q[1] = ch)[2] ELSE ch
charToLowerCase(ch) ==
    IF \E q \in CasePairs : q[2] = ch THEN (CHOOSE q \in CasePairs : q[2] = ch)[1] ELSE ch
toLowerCase(str) == [j \in 1..Len(str) |-> charToLowerCase(str[j])]

\* The keys of moodMap.
moodMap == { <<"e", "x", "c", "i", "t", "e", "d">>, <<"c", "h", "i", "l", "l">>,
             <<"s", "a", "d">>, <<"p", "u", "m", "p", "e", "d">> }

\* The mood strings a caller passes.
MoodInputs == { <<"c", "h", "i", "l", "l">>, <<"s", "A", "D">>,
                <<"a", "n", "g", "r", "y">>, << >> }

\* Lines 136-138: the checks getRecommendedTracks makes before its request.
MoodCheckAcceptsAll(mood) == "ok"

MoodCheck(mood) ==
    IF mood = << >> THEN "MoodRequired"
    ELSE IF toLowerCase(mood) \notin moodMap THEN "InvalidMood"
    ELSE "ok"

\* mood.charAt(0).toUpperCase() + mood.slice(1)
Capitalized(mood) ==
    IF mood = << >> THEN << >> ELSE << charToUpperCase(mood[1]) >> \o SubSeq(mood, 2, Len(mood))

\* Lines 165-167: the name in the body of the creation request.
moodTitle(mood) == IF Len(mood) > 0 THEN Capitalized(mood) ELSE << "Custom" >>
RequestName(mood) == << "MoodPlayl.ist: " >> \o moodTitle(mood) \o << " Vibe" >>

\* Line 245: the name in the result.
ResultNameRaw(mood) == << "MoodPlayl.ist: " >> \o mood \o << " Vibe" >>

ResultName(mood) == << "MoodPlayl.ist: " >> \o Capitalized(mood) \o << " Vibe" >>

\* Line 149: data.tracks.map(t => t?.uri).filter(Boolean).
Uris(items) == SelectSeq(items, LAMBDA x : x # 0)

\* Line 206: trackUris.slice(i, i + chunkSize).
Min(a, b) == IF a <= b THEN a ELSE b
ChunkOverlapping(trackUris, i) == SubSeq(trackUris, i + 1, Min(i + chunkSize + 1, Len(trackUris)))

Chunk(trackUris, i) == SubSeq(trackUris, i + 1, Min(i + chunkSize, Len(trackUris)))

(* ------------------------------ orchestrator -------------------------- *)
\* The awaited spotifyFetch of p's orchestrator frame at site pc has returned.
Awaited(p, pc) == top[p] = "gen" /\ gp[p].pc = pc /\ fx[p].pc = "ret" /\ au[p].pc # "ret"

\* The function returns or throws: res reaches the caller.
Finish(p, g, res) ==
    /\ gp' = [gp EXCEPT ![p] = [g EXCEPT !.pc = "ret", !.at = g.pc, !.res = res]]
    /\ UNCHANGED <<store, au, fx, log, net>>

\* The function goes on to its next spotifyFetch.
NextCall(p, g, ep, uris) ==
    /\ Call(p, ep, g.token, uris)
    /\ gp' = [gp EXCEPT ![p] = g]
    /\ net' = [net EXCEPT ![p] = @ \cup Dispatched(log'[p])]

\* Lines 205-213: one turn of the loop of addTracksToPlaylist, or its end.
AddLoop(p, g) ==
    IF g.i < Len(g.trackUris)
      THEN LET chunk == Chunk(g.trackUris, g.i) IN
           NextCall(p, [g EXCEPT !.pc = "add", !.sent = Append(@, chunk)], "tracks", chunk)
      ELSE Finish(p, g, IF g.fn = "generate"
                          THEN Playlist(ResultName(g.mood), g.playlistUrl, Len(g.trackUris))
                          ELSE Returns)

\* generatePlaylist(token, mood): line 228.
GenerateCall(p, token, mood) ==
    /\ Call(p, "me", token, << >>)
    /\ gp' = [gp EXCEPT ![p] = [GpIdle EXCEPT !.pc = "me", !.fn = "generate",
                                             !.token = token, !.mood = mood,
                                             !.had = { k \in SessionKeys : Has(store[k]) }]]
    /\ net' = [net EXCEPT ![p] = Dispatched(log'[p])]
    /\ top' = [top EXCEPT ![p] = "gen"]

StartGenerate(p) ==
    /\ Quiet /\ Fresh(p)
    /\ \E token \in HeldTokens, mood \in MoodInputs : GenerateCall(p, token, mood)
    /\ UNCHANGED <<now, ui>>

\* Lines 228-229, then getRecommendedTracks up to its request (lines 136-142).
GenerateAfterMe(p) ==
    /\ Awaited(p, "me")
    /\ LET r == fx[p].res
           g == gp[p] IN
       IF ~r.ok THEN Finish(p, g, Failure(r.kind, "none"))
       ELSE IF ~Has(r.body.id) THEN Finish(p, g, Failure("NoProfile", "none"))
       ELSE LET g1 == [g EXCEPT !.me = r.body.id] IN
            IF MoodCheck(g.mood) # "ok" THEN Finish(p, g1, Failure(MoodCheck(g.mood), "none"))
            ELSE NextCall(p, [g1 EXCEPT !.pc = "recommendations"], "recommendations", << >>)
    /\ UNCHANGED <<now, ui, top>>

\* Lines 144-149 and 232-235, then createNewPlaylist up to its /me (line 159).
GenerateAfterTracks(p) ==
    /\ Awaited(p, "recommendations")
    /\ LET r == fx[p].res
           g == gp[p] IN
       IF ~r.ok THEN Finish(p, g, Failure(r.kind, "none"))
       ELSE IF Len(r.body.items) = 0 THEN Finish(p, g, Failure("NoTracksFound", "none"))
       ELSE LET g1 == [g EXCEPT !.trackUris = Uris(r.body.items)] IN
            IF Len(g1.trackUris) = 0 THEN Finish(p, g1, Failure("NoTracks", "none"))
            ELSE NextCall(p, [g1 EXCEPT !.pc = "createMe"], "me", << >>)
    /\ UNCHANGED <<now, ui, top>>

\* Lines 158-176: createNewPlaylist after its /me, up to the creation request.
\* The outcome of the /me request is not looked at.
CreateAfterMeIgnoresFailure(p) ==
    /\ Awaited(p, "createMe")
    /\ NextCall(p, [gp[p] EXCEPT !.pc = "create", !.sentName = RequestName(gp[p].mood)],
                "create", << >>)
    /\ UNCHANGED <<now, ui, top>>

CreateAfterMe(p) ==
    /\ Awaited(p, "createMe")
    /\ LET r == fx[p].res
           g == gp[p] IN
       IF ~r.ok THEN Finish(p, g, Failure("PrecheckFailed", r.kind))
       ELSE NextCall(p, [g EXCEPT !.pc = "create", !.sentName = RequestName(g.mood)],
                     "create", << >>)
    /\ UNCHANGED <<now, ui, top>>

\* Lines 180-184 and 238-242, then addTracksToPlaylist up to its first request.
GenerateAfterCreate(p) ==
    /\ Awaited(p, "create")
    /\ LET r == fx[p].res
           g == gp[p] IN
       IF ~r.ok THEN Finish(p, g, Failure(r.kind, "none"))
       ELSE IF ~Has(r.body.id) THEN Finish(p, g, Failure("CreateFailed", "none"))
       ELSE AddLoop(p, [g EXCEPT !.playlistId = r.body.id, !.playlistUrl = r.body.url, !.i = 0])
    /\ UNCHANGED <<now, ui, top>>

\* addTracksToPlaylist(token, playlistId, trackUris) called on its own:
\* lines 192-193, then the loop.
StartAddTracks(p) ==
    /\ Quiet /\ Fresh(p)
    /\ top' = [top EXCEPT ![p] = "gen"]
    /\ \E token \in HeldTokens, playlistId \in {Absent, Some(1)},
          n \in {0, 1, chunkSize, chunkSize + 1, MaxTracks} :
         LET g == [GpIdle EXCEPT !.fn = "addTracks", !.token = token,
                                 !.had = { k \in SessionKeys : Has(store[k]) },
                                 !.playlistId = playlistId, !.trackUris = Ids(n)]
             chunk == Chunk(g.trackUris, 0) IN
         IF ~Has(playlistId) \/ Len(g.trackUris) = 0
           THEN /\ gp' = [gp EXCEPT ![p] =
                            [g EXCEPT !.pc = "ret",
                                      !.res = IF ~Has(playlistId)
                                                THEN Failure("PlaylistIdRequired", "none")
                                                ELSE Returns]]
                /\ fx' = [fx EXCEPT ![p] = FxIdle]
                /\ log' = [log EXCEPT ![p] = << >>]
                /\ net' = [net EXCEPT ![p] = {}]
                /\ UNCHANGED <<store, au>>
           ELSE /\ Call(p, "tracks", token, chunk)
                /\ gp' = [gp EXCEPT ![p] = [g EXCEPT !.pc = "add", !.sent = << chunk >>]]
                /\ net' = [net EXCEPT ![p] = Dispatched(log'[p])]
    /\ UNCHANGED <<now, ui>>

\* Lines 209-218: what the loop does with the outcome r of an insertion call.
AddStepSwallowsError(g, r) ==
    [g EXCEPT !.i = @ + chunkSize, !.succeeded = @ + 1]

AddStep(g, r) ==
    IF r.ok THEN [g EXCEPT !.i = @ + chunkSize, !.succeeded = @ + 1]
    ELSE [g EXCEPT !.chunkStart = Some(g.i), !.res = Failure("TrackInsertFailed", r.kind)]

\* An insertion call has returned.
AddAfterChunk(p) ==
    /\ Awaited(p, "add")
    /\ LET g == AddStep(gp[p], fx[p].res) IN
       IF g.res.done THEN Finish(p, g, g.res) ELSE AddLoop(p, g)
    /\ UNCHANGED <<now, ui, top>>

Next ==
    \/ Tick
    \/ \E p \in Procs : ClearAll(p)
    \/ \E p \in Procs : StartLogin(p)
    \/ \E p \in Procs : LoginRedirect(p)
    \/ \E p \in Procs : StartExchange(p)
    \/ \E p \in Procs : ExchangeResponse(p)
    \/ \E p \in Procs : StartRefresh(p)
    \/ \E p \in Procs : RefreshResponse(p)
    \/ \E p \in Procs : StartFetch(p)
    \/ \E p \in Procs : FetchRefreshed1(p)
    \/ \E p \in Procs : FetchRefreshed2(p)
    \/ \E p \in Procs : FetchResponse(p)
    \/ \E p \in Procs : FetchRefreshed3(p)

Spec == Init /\ [][Next]_vars

(* ------------------ the orchestrator on a given session --------------- *)
\* A session as a login left it: nothing stored, or the tokens of an exchange
\* at time 0 with expires_in 6; the orchestrator is called at once or 2 s later,
\* when the token is inside the margin.
Session(lifetime) ==
    [k \in Keys |-> CASE k \in {"access_token", "refresh_token", "app_pref"} -> Some(1)
                     [] k = "token_expiry" -> Some(lifetime * MsPerSec)
                     [] OTHER -> Absent]
Sessions ==
    { [k \in Keys |-> IF k = "app_pref" THEN Some(1) ELSE Absent],
      Session(6) }

InitGen ==
    /\ store \in Sessions
    /\ now \in {0, 2 * MsPerSec}
    /\ top = [p \in Procs |-> "none"]
    /\ au = [p \in Procs |-> AuIdle]
    /\ fx = [p \in Procs |-> FxIdle]
    /\ gp = [p \in Procs |-> GpIdle]
    /\ log = [p \in Procs |-> << >>]
    /\ net = [p \in Procs |-> {}]
    /\ ui = UiIdle

NextGen ==
    \/ \E p \in Procs : StartGenerate(p)
    \/ \E p \in Procs : GenerateAfterMe(p)
    \/ \E p \in Procs : GenerateAfterTracks(p)
    \/ \E p \in Procs : CreateAfterMe(p)
    \/ \E p \in Procs : GenerateAfterCreate(p)
    \/ \E p \in Procs : StartAddTracks(p)
    \/ \E p \in Procs : AddAfterChunk(p)
    \/ \E p \in Procs : RefreshResponse(p)
    \/ \E p \in Procs : FetchRefreshed1(p)
    \/ \E p \in Procs : FetchRefreshed2(p)
    \/ \E p \in Procs : FetchResponse(p)
    \/ \E p \in Procs : FetchRefreshed3(p)

SpecGen == InitGen /\ [][NextGen]_vars

(* ------------------ two executor calls on one session ----------------- *)
\* Two callers on the session of an exchange at time 0 with expires_in 6, each
\* making one executor call 2 s later, when the token is inside the margin and
\* a call refreshes before it dispatches.  The refreshes that race are these:
\* the upstream answers the resource requests with anything but a 401.
InitRace ==
    /\ store = Session(6)
    /\ now = 2 * MsPerSec
    /\ top = [p \in Racers |-> "none"]
    /\ au = [p \in Racers |-> AuIdle]
    /\ fx = [p \in Racers |-> FxIdle]
    /\ gp = [p \in Racers |-> GpIdle]
    /\ log = [p \in Racers |-> << >>]
    /\ net = [p \in Racers |-> {}]
    /\ ui = UiIdle

NextRace ==
    \/ \E p \in Racers : Fresh(p) /\ StartFetch(p)
    \/ \E p \in Racers : RefreshResponse(p)
    \/ \E p \in Racers : FetchRefreshed1(p)
    \/ \E p \in Racers : FetchRefreshed2(p)
    \/ \E p \in Racers : FetchResponse(p) /\ fx'[p].pc = "ret"

SpecRace == InitRace /\ [][NextRace]_vars

(* ------------------ an executor call that is answered ----------------- *)
\* One call of spotifyFetch on a session as a login left it, at once or inside
\* the margin.  Every request sent gets its answer or its failure, and a
\* function whose await has settled is resumed.
InitFetch ==
    /\ store \in Sessions
    /\ now \in {0, 2 * MsPerSec}
    /\ top = [p \in Procs |-> "none"]
    /\ au = [p \in Procs |-> AuIdle]
    /\ fx = [p \in Procs |-> FxIdle]
    /\ gp = [p \in Procs |-> GpIdle]
    /\ log = [p \in Procs |-> << >>]
    /\ net = [p \in Procs |-> {}]
    /\ ui = UiIdle

NextFetch ==
    \/ \E p \in Procs : Fresh(p) /\ StartFetch(p)
    \/ \E p \in Procs : RefreshResponse(p)
    \/ \E p \in Procs : FetchRefreshed1(p)
    \/ \E p \in Procs : FetchRefreshed2(p)
    \/ \E p \in Procs : FetchResponse(p)
    \/ \E p \in Procs : FetchRefreshed3(p)

SpecFetch ==
    /\ InitFetch /\ [][NextFetch]_vars
    /\ \A p \in Procs : /\ WF_vars(RefreshResponse(p))
                        /\ WF_vars(FetchResponse(p))
                        /\ WF_vars(FetchRefreshed1(p))
                        /\ WF_vars(FetchRefreshed2(p))
                        /\ WF_vars(FetchRefreshed3(p))

(* ------------------ an executor call with an observer ----------------- *)
\* One call of the debug-enabled spotifyFetch on a session as a login left it,
\* at once or inside the margin, with each kind of observer.
InitObs ==
    /\ store \in Sessions
    /\ now \in {0, 2 * MsPerSec}
    /\ top = [p \in Procs |-> "none"]
    /\ au = [p \in Procs |-> AuIdle]
    /\ fx = [p \in Procs |-> FxIdle]
    /\ gp = [p \in Procs |-> GpIdle]
    /\ log = [p \in Procs |-> << >>]
    /\ net = [p \in Procs |-> {}]
    /\ ui = UiIdle

NextObs ==
    \/ \E p \in Procs : StartDebugFetch(p)
    \/ \E p \in Procs : RefreshResponse(p)
    \/ \E p \in Procs : DebugFetchRefreshed1(p)
    \/ \E p \in Procs : DebugFetchRefreshed2(p)
    \/ \E p \in Procs : DebugFetchResponse(p)
    \/ \E p \in Procs : DebugFetchRefreshed3(p)

SpecObs == InitObs /\ [][NextObs]_vars

(* --------------- operations overlapping on one store ------------------ *)
\* The store as handleSpotifyLogin leaves it: the verifier and the state of the
\* login under way, and no session.
LoginPending ==
    [k \in Keys |-> IF k \in {"code_verifier", "pkce_state", "app_pref"} THEN Some(1) ELSE Absent]

\* Two callers on the same localStorage, on a store as a logout, a login or an
\* exchange left it: each runs one operation of the authenticator or the
\* executor, and the steps of one run between the awaits of the other.
InitShared ==
    /\ store \in Sessions \cup {LoginPending}
    /\ now \in {0, 2 * MsPerSec}
    /\ top = [p \in Racers |-> "none"]
    /\ au = [p \in Racers |-> AuIdle]
    /\ fx = [p \in Racers |-> FxIdle]
    /\ gp = [p \in Racers |-> GpIdle]
    /\ log = [p \in Racers |-> << >>]
    /\ net = [p \in Racers |-> {}]
    /\ ui = UiIdle

\* The token endpoint answers with a numeric expires_in or with none.
Plain(resp) == resp.exp.k \in {"num", "undefined"}

NextShared ==
    \/ \E p \in Racers : Fresh(p) /\ ClearAll(p)
    \/ \E p \in Racers : Fresh(p) /\ StartLogin(p)
    \/ \E p \in Racers : LoginRedirect(p)
    \/ \E p \in Racers : Fresh(p) /\ StartExchange(p)
    \/ \E p \in Racers : ExchangeResponse(p) /\ Plain(au'[p].resp)
    \/ \E p \in Racers : Fresh(p) /\ StartRefresh(p)
    \/ \E p \in Racers : RefreshResponse(p) /\ Plain(au'[p].resp)
    \/ \E p \in Racers : Fresh(p) /\ StartFetch(p)
    \/ \E p \in Racers : FetchRefreshed1(p)
    \/ \E p \in Racers : FetchRefreshed2(p)
    \/ \E p \in Racers : FetchResponse(p)
    \/ \E p \in Racers : FetchRefreshed3(p)

SpecShared == InitShared /\ [][NextShared]_vars

(* ------------------------------ the page ------------------------------ *)
\* MoodSelector.js line 6.
MOODS == { <<"e", "x", "c", "i", "t", "e", "d">>, <<"c", "h", "i", "l", "l">>,
           <<"s", "a", "d">>, <<"p", "u", "m", "p", "e", "d">> }

\* App.js lines 71-123: which of the four returns of App renders.
Screen(u) ==
    IF u.loading THEN "loading"
    ELSE IF Has(u.error) /\ ~Has(u.accessToken) THEN "error"
    ELSE IF ~Has(u.accessToken) THEN "login"
    ELSE "main"

\* The handlers of the buttons that are rendered and enabled.
Offered(u) ==
    CASE Screen(u) = "loading" -> {}
      [] Screen(u) = "error" -> {"handleTryLoginAgain", "clearAndRetry"}
      [] Screen(u) = "login" -> {"handleSpotifyLogin"}
      [] OTHER -> {"handleLogout"}
                    \cup (IF ~u.isLoading THEN {"handleSelectMood"} ELSE {})
                    \cup (IF ~u.isLoading /\ Has(u.selectedMood) THEN {"handleGenerate"} ELSE {})

\* MoodSelector.js lines 30-31: the text put in localError for a thrown Error
\* (every Error of the service has a message).
LocalErrorText(err) == << "Could not generate playlist: ", <<err.kind, err.cause>> >>

\* MoodSelector.js lines 37-41.
handleSelectMood(mood) ==
    /\ Quiet
    /\ "handleSelectMood" \in Offered(ui)
    /\ ui' = [ui EXCEPT !.selectedMood = Some(mood), !.localError = Absent, !.error = Absent]
    /\ UNCHANGED <<store, now, top, au, fx, gp, log, net>>

\* MoodSelector.js lines 13-25: a click on the generate button, up to the
\* await of generatePlaylist.
handleGenerate(p) ==
    /\ Quiet /\ Fresh(p)
    /\ "handleGenerate" \in Offered(ui)
    /\ GenerateCall(p, ui.accessToken, Val(ui.selectedMood))
    /\ ui' = [ui EXCEPT !.isLoading = TRUE, !.localError = Absent, !.error = Absent,
                        !.playlistResult = Absent, !.pending = TRUE,
                        !.clicks = @ + 1, !.invoked = @ + 1, !.thrown = Absent]
    /\ UNCHANGED now

\* MoodSelector.js lines 26-34: after the await.  The setters of a MoodSelector
\* that was unmounted by a logout do nothing; setPlaylistResult is App's.
GenerateSettled(p) ==
    /\ ui.pending
    /\ top[p] = "gen" /\ gp[p].pc = "ret"
    /\ LET r == gp[p].res
           mounted == Has(ui.accessToken) IN
       ui' = [ui EXCEPT !.pending = FALSE,
                        !.playlistResult = IF r.ok THEN Some(r) ELSE @,
                        !.localError = IF ~r.ok /\ mounted THEN Some(LocalErrorText(r)) ELSE @,
                        !.thrown = IF r.ok THEN Absent ELSE Some(r),
                        !.isLoading = FALSE]
    /\ UNCHANGED <<store, now, top, au, fx, gp, log, net>>

\* App.js lines 64-69; MoodSelector is unmounted and its state is lost.
handleLogout ==
    /\ Quiet
    /\ "handleLogout" \in Offered(ui)
    /\ store' = clearAllTokens(store)
    /\ ui' = [ui EXCEPT !.accessToken = Absent, !.playlistResult = Absent, !.error = Absent,
                        !.selectedMood = Absent, !.isLoading = FALSE, !.localError = Absent]
    /\ UNCHANGED <<now, top, au, fx, gp, log, net>>

\* The page opened on a stored session: App.js line 11.
InitUi ==
    /\ store = Session(6)
    /\ now \in {0, 2 * MsPerSec}
    /\ top = [p \in Procs |-> "none"]
    /\ au = [p \in Procs |-> AuIdle]
    /\ fx = [p \in Procs |-> FxIdle]
    /\ gp = [p \in Procs |-> GpIdle]
    /\ log = [p \in Procs |-> << >>]
    /\ net = [p \in Procs |-> {}]
    /\ ui = [UiIdle EXCEPT !.accessToken = getStoredAccessToken(store)]

\* The mood buttons the user clicks.
MoodClicks == { m \in MOODS : Len(m) <= 5 }

NextUi ==
    \/ \E mood \in MoodClicks : handleSelectMood(mood)
    \/ \E p \in Procs : handleGenerate(p)
    \/ \E p \in Procs : GenerateSettled(p)
    \/ handleLogout
    \/ \E p \in Procs : GenerateAfterMe(p)
    \/ \E p \in Procs : GenerateAfterTracks(p)
    \/ \E p \in Procs : CreateAfterMe(p)
    \/ \E p \in Procs : GenerateAfterCreate(p)
    \/ \E p \in Procs : AddAfterChunk(p)
    \/ \E p \in Procs : RefreshResponse(p)
    \/ \E p \in Procs : FetchRefreshed2(p)
    \/ \E p \in Procs : FetchResponse(p)
    \/ \E p \in Procs : FetchRefreshed3(p)

SpecUi == InitUi /\ [][NextUi]_vars

(* ============================ properties ============================== *)
Idx(p, kind) == { i \in 1..Len(log[p]) : log[p][i].e = kind }
Between(S, a, b) == { i \in S : a < i /\ i < b }
Least(S) == CHOOSE x \in S : \A y \in S : x <= y
Greatest(S) == CHOOSE x \in S : \A y \in S : y <= x
InFetch(p) == fx[p].pc # "idle"
AuthEmpty(s) == \A k \in AuthKeys : ~Has(s[k])
ExecutorErrors == {"NoToken", "SessionExpired", "Network", "Forbidden", "NotFound", "Upstream"}

\* C1 (as stated): once the first dispatch has been answered 401 and the call has
\* been made again (retries = 1), there was exactly one refresh() after the first
\* dispatch, exactly one re-dispatch, and it carries the token that refresh
\* returned; there is never a third dispatch.
C1_OneRefreshOneRedispatch ==
    \A p \in Procs :
      InFetch(p) =>
        LET D == Idx(p, "dispatch") IN
        /\ Cardinality(D) <= 2
        /\ (fx[p].retries = 1 /\ fx[p].pc \in {"net", "ret"}) =>
             /\ Cardinality(D) = 2
             /\ Cardinality({ i \in Idx(p, "refreshCall") : i > Least(D) }) = 1
             /\ log[p][Greatest(D)].tok =
                  log[p][Least({ i \in Idx(p, "granted") : i > Least(D) })].tok

\* C1 (amended): a 401 on the first dispatch triggers a refresh(); if it succeeds
\* the call is made again once, refreshing a second time exactly when the token
\* just issued expires in less than 5 s, and is re-dispatched at most once, with
\* the token returned by the latest refresh; a 401 on the re-dispatch fails the
\* call; there is never a third dispatch.
C1_SingleRetry ==
    \A p \in Procs :
      InFetch(p) =>
        LET D == Idx(p, "dispatch") IN
        /\ Cardinality(D) <= 2
        /\ fx[p].retries <= 1
        /\ fx[p].pc = "rf3" =>
             /\ Cardinality(D) = 1
             /\ Cardinality({ i \in Idx(p, "refreshCall") : i > Least(D) }) = 1
        /\ Cardinality(D) = 2 =>
             LET a == Least(D)
                 b == Greatest(D)
                 R == Between(Idx(p, "refreshCall"), a, b)
                 G == Between(Idx(p, "granted"), a, b)
             IN
             /\ fx[p].retries = 1
             /\ Cardinality(R) \in {1, 2}
             /\ G # {}
             /\ log[p][b].tok = log[p][Greatest(G)].tok
             /\ Cardinality(R) = 1 <=> log[p][Least(G)].n >= SafetyMarginMs
        /\ (fx[p].pc = "ret" /\ fx[p].res.body.status = 401) =>
             /\ ~fx[p].res.ok
             /\ fx[p].retries = 1
             /\ Cardinality(D) = 2

\* C1 witness: a call whose re-dispatch was answered 401 as well.
C1_Witness ==
    \E p \in Procs :
      /\ fx[p].pc = "ret" /\ fx[p].res.body.status = 401
      /\ Cardinality(Idx(p, "dispatch")) = 2

C3_StateMismatchRejected ==
    \A p \in Procs :
      (/\ au[p].fn = "exchange"
       /\ Has(au[p].cv) /\ Has(au[p].ss) /\ Has(au[p].rs) /\ au[p].ss # au[p].rs) =>
        /\ au[p].pc = "ret"
        /\ au[p].res.kind = "StateMismatch"
        /\ Idx(p, "token") = {}
        /\ AuthEmpty(store)

C3_Witness ==
    \E p \in Procs :
      /\ au[p].fn = "exchange" /\ au[p].res.kind = "StateMismatch"
      /\ Has(au[p].cv) /\ Has(au[p].ss) /\ Has(au[p].rs)

\* C4: clearAllTokens never raises, leaves an empty store empty, and run twice
\* in a row gives the store it gave the first time.
C4_ClearIdempotent ==
    [][\A p \in Procs :
         au'[p].fn = "clear" =>
           /\ au'[p].pc = "ret" /\ au'[p].res.ok
           /\ AuthEmpty(store) => store' = store
           /\ au[p].fn = "clear" => store' = store]_vars

C4_Witness ==
    \E p \in Procs : au[p].fn = "clear" /\ au[p].again /\ au[p].res.ok

\* C10: when exchangeCode or refresh fails with MissingVerifier, StateMismatch,
\* TokenExchangeFailed, NoTokenReturned, NoRefreshToken or RefreshFailed, the
\* five credential keys are absent when the error reaches the caller.
AuthErrorKinds == {"MissingVerifier", "StateMismatch", "TokenExchangeFailed",
                   "NoTokenReturned", "NoRefreshToken", "RefreshFailed"}

C10_AuthFailureWipes ==
    \A p \in Procs :
      (au[p].pc = "ret" /\ au[p].fn \in {"exchange", "refresh"}
         /\ au[p].res.kind \in AuthErrorKinds) => AuthEmpty(store)

\* C10 witness: a refresh rejected by the token endpoint.
C10_Witness ==
    \E p \in Procs :
      au[p].pc = "ret" /\ au[p].fn = "refresh" /\ au[p].res.kind = "RefreshFailed"

\* C11 (as stated): an executor call that fails with Forbidden leaves the
\* credential store cleared; one that fails with NoToken, SessionExpired,
\* Network, NotFound or Upstream still has every token and expiry that was
\* stored when it began.
C11_OnlyForbiddenClears ==
    \A p \in Procs :
        top[p] = "fetch" /\ fx[p].pc = "ret" /\ ~fx[p].res.ok =>
          /\ fx[p].res.kind = "Forbidden" => AuthEmpty(store)
          /\ fx[p].res.kind \in {"NoToken", "SessionExpired", "Network", "NotFound", "Upstream"}
               => \A k \in fx[p].had : Has(store[k])

\* C11 (amended): an executor call that fails with Forbidden, NoToken or
\* SessionExpired leaves the credential store cleared; one that fails with
\* Network, NotFound or Upstream still has every token and expiry that was
\* stored when it began (replaced by the issued ones if the call refreshed).
C11_ClearingErrors ==
    \A p \in Procs :
        top[p] = "fetch" /\ fx[p].pc = "ret" /\ ~fx[p].res.ok =>
          /\ fx[p].res.kind \in ExecutorErrors
          /\ fx[p].res.kind \in {"Forbidden", "NoToken", "SessionExpired"} => AuthEmpty(store)
          /\ fx[p].res.kind \in {"Network", "NotFound", "Upstream"}
               => /\ \A k \in fx[p].had : Has(store[k])
                  /\ Idx(p, "granted") = {} =>
                       fx[p].e0 = store["token_expiry"]

\* An executor call that refreshed after a 401 on a full session and then
\* failed with NotFound.
C11_Witness ==
    \E p \in Procs :
        /\ top[p] = "fetch" /\ fx[p].pc = "ret" /\ fx[p].res.kind = "NotFound"
        /\ fx[p].had = SessionKeys /\ fx[p].retries = 1
        /\ \A k \in SessionKeys : Has(store[k])

\* The state of the authentication session a store stands for.
Phase(s) ==
    IF Has(s["access_token"]) THEN "Authenticated"
    ELSE IF Has(s["code_verifier"]) THEN "AwaitingCode"
    ELSE "Unauthenticated"
\* The step is the start of handleSpotifyLogin by p.
LoginStep(p) == au'[p].fn = "login" /\ au'[p].pc = "hash"
\* The step is the return of p's auth function fn, with success or an error.
AuthReturn(p, fn, ok) ==
    /\ au[p].pc # "ret" \/ au[p].fn # fn \/ top'[p] # top[p] \/ log'[p] # log[p]
    /\ au'[p].fn = fn /\ au'[p].pc = "ret" /\ au'[p].res.ok = ok
\* The step is clearAllTokens called by p: from the UI, or by the executor in
\* one of its three catch blocks or on a 403.
ClearStep(p) ==
    \/ au'[p].fn = "clear" /\ au'[p].pc = "ret"
    \/ /\ fx[p].pc # "ret" /\ fx'[p].pc = "ret"
       /\ fx'[p].res.kind \in {"Forbidden", "NoToken", "SessionExpired"}

\* C12: with operations that do not overlap, every step that changes the
\* session state is one of: any state to AwaitingCode by the start of
\* handleSpotifyLogin; AwaitingCode to Authenticated by a successful exchange;
\* any state to Unauthenticated by a clearAllTokens call or a failed exchange or
\* refresh.  While the session stays Authenticated its tokens and expiry change
\* only by a successful refresh.  (So Authenticated is never entered from
\* Unauthenticated.)
C12_SessionStateMachine ==
    [][ \A p \in Procs :
          LET from == Phase(store)
              to == Phase(store') IN
          /\ from # to =>
                \/ to = "AwaitingCode" /\ LoginStep(p)
                \/ from = "AwaitingCode" /\ to = "Authenticated" /\ AuthReturn(p, "exchange", TRUE)
                \/ /\ to = "Unauthenticated" /\ store' = clearAllTokens(store)
                   /\ \/ ClearStep(p)
                      \/ AuthReturn(p, "exchange", FALSE)
                      \/ AuthReturn(p, "refresh", FALSE)
          /\ from = to /\ (\E k \in SessionKeys : store'[k] # store[k]) =>
                /\ from = "Authenticated"
                /\ AuthReturn(p, "refresh", TRUE) ]_vars

\* A successful exchange has made the session Authenticated.
C12_Witness ==
    \E p \in Procs :
        /\ au[p].fn = "exchange" /\ au[p].pc = "ret" /\ au[p].res.ok
        /\ Phase(store) = "Authenticated"

\* C13: once handleSpotifyLogin has completed, the store holds the code_verifier
\* and the pkce_state this call generated and no access_token, refresh_token or
\* token_expiry; the state in the redirect is the stored pkce_state and the
\* challenge in the redirect is derived from the stored code_verifier.
C13_LoginResetsSession ==
    \A p \in Procs :
        au[p].fn = "login" /\ au[p].pc = "ret" =>
          /\ Has(store["code_verifier"]) /\ store["code_verifier"] = au[p].cv
          /\ Has(store["pkce_state"]) /\ store["pkce_state"] = au[p].navState
          /\ \A k \in SessionKeys : ~Has(store[k])
          /\ au[p].navChallenge = Some(S256(Val(store["code_verifier"])))

\* A login that began on an authenticated session has completed.
C13_Witness ==
    \E p \in Procs :
        /\ au[p].fn = "login" /\ au[p].pc = "ret"
        /\ Has(au[p].navState) /\ Has(store["pkce_state"])
        /\ au[p].hadSession

\* C14: when exchangeCodeForToken returns a token, the store holds the
\* access_token of the response, the refresh_token of the response if it has one
\* (none was stored before), a token_expiry of the current time plus the
\* declared expires_in seconds, and neither code_verifier nor pkce_state; the
\* value returned is the stored access token.
C14_ExchangeStoresTokens ==
    [][ \A p \in Procs :
          AuthReturn(p, "exchange", TRUE) =>
            LET resp == au'[p].resp IN
            /\ Has(resp.at) /\ store'["access_token"] = resp.at
            /\ au'[p].res.tok = store'["access_token"]
            /\ store'["refresh_token"] = IF Has(resp.rt) THEN resp.rt ELSE store["refresh_token"]
            /\ ~Has(resp.rt) => ~Has(store'["refresh_token"])
            /\ Has(store'["token_expiry"])
            /\ resp.exp.k = "num" => store'["token_expiry"] = Some(now + 1000 * resp.exp.v)
            /\ ~Has(store'["code_verifier"]) /\ ~Has(store'["pkce_state"])
            /\ store'["app_pref"] = store["app_pref"] ]_vars

\* An exchange has returned a token issued with a refresh token and a numeric
\* lifetime, at a time other than 0.
C14_Witness ==
    \E p \in Procs :
        /\ au[p].fn = "exchange" /\ au[p].pc = "ret" /\ au[p].res.ok
        /\ Has(au[p].resp.rt) /\ au[p].resp.exp.k = "num"
        /\ now > 0 /\ store["token_expiry"] = Some(now + 1000 * au[p].resp.exp.v)

\* C15: when refreshAccessToken returns a token, access_token and token_expiry
\* hold the newly issued values, refresh_token holds the one of the response if
\* it carries one and is unchanged otherwise, and no other key has changed.
C15_RefreshOverwrites ==
    [][ \A p \in Procs :
          AuthReturn(p, "refresh", TRUE) =>
            LET resp == au'[p].resp IN
            /\ Has(resp.at) /\ store'["access_token"] = resp.at
            /\ au'[p].res.tok = resp.at
            /\ Has(store'["token_expiry"])
            /\ resp.exp.k = "num" => store'["token_expiry"] = Some(now + 1000 * resp.exp.v)
            /\ store'["refresh_token"] = IF Has(resp.rt) THEN resp.rt ELSE store["refresh_token"]
            /\ Has(store'["refresh_token"])
            /\ \A k \in Keys \ SessionKeys : store'[k] = store[k] ]_vars

\* A refresh has returned a token from a response without refresh token: the
\* stored refresh token is the one it sent.
C15_Witness ==
    \E p \in Procs :
        /\ au[p].fn = "refresh" /\ au[p].pc = "ret" /\ au[p].res.ok
        /\ ~Has(au[p].resp.rt) /\ Has(store["refresh_token"])
        /\ store["access_token"] = au[p].resp.at

\* C16 (as stated): the executor never sends a token that differs from the
\* store: while a resource request it dispatched is in flight and the store
\* holds an access token, the bearer token of the request is that access token,
\* also when the caller passed a token of its own.
C16_BearerIsStoredToken ==
    \A p \in Procs :
        fx[p].pc = "net" /\ Has(store["access_token"])
          => fx[p].cur = store["access_token"]

\* The events of kind kind in p's log.
Events(p, kind) == { log[p][i] : i \in Idx(p, kind) }

\* C17: two executor calls are in flight on one session and the refreshes they
\* trigger overlap.  Every refresh that returns a token leaves the store with
\* the access token and the expiry of its own response and the session
\* Authenticated (the last write wins); the stored access token and expiry
\* change at no other step, save when the store is cleared; so once the
\* refreshes of both calls have returned a token and nothing has cleared the
\* store, it holds the access token and the expiry of one and the same response.
C17_LastWriteWins ==
    /\ [](\A p, q \in Racers :
            /\ p # q /\ Events(p, "granted") # {} /\ Events(q, "granted") # {}
            /\ Has(store["access_token"])
            => \E ev \in Events(p, "granted") \cup Events(q, "granted") :
                  /\ store["access_token"] = ev.tok
                  /\ store["token_expiry"] = Some(now + ev.n))
    /\ [][ /\ \A p \in Racers :
               AuthReturn(p, "refresh", TRUE) =>
                 LET ev == log'[p][Len(log'[p])] IN
                 /\ ev.e = "granted" /\ ev.tok = au'[p].resp.at
                 /\ store'["access_token"] = ev.tok
                 /\ store'["token_expiry"] = Some(now + ev.n)
                 /\ au'[p].resp.exp.k = "num" => ev.n = 1000 * au'[p].resp.exp.v
                 /\ Phase(store') = "Authenticated"
           /\ (\E k \in {"access_token", "token_expiry"} : store'[k] # store[k]) =>
                 \/ \E p \in Racers : AuthReturn(p, "refresh", TRUE)
                 \/ store' = clearAllTokens(store) /\ Phase(store') = "Unauthenticated" ]_vars

\* Both calls sent the refresh token of the session, both were granted a token,
\* and one of the responses rotated the refresh token: it arrived after both
\* requests had been sent.  The store holds the token of one of them.
C17_Witness ==
    \E p, q \in Racers :
        /\ p # q
        /\ \A r \in {p, q} : /\ \E ev \in Events(r, "token") : ev.tok = Some(1)
                              /\ Events(r, "granted") # {}
        /\ store["refresh_token"] # Some(1)
        /\ \E ev \in Events(q, "granted") : store["access_token"] = ev.tok
        /\ \A ev \in Events(p, "granted") : store["access_token"] # ev.tok

\* C19: a step at which clearAllTokens runs last (a call of it, or an executor
\* call that ends in Forbidden, NoToken or SessionExpired) leaves the store
\* with the same keys, the five credential keys absent and every other key
\* with the value it had: the keys removed are exactly the credential keys
\* that were present.
C19_ClearRemovesFiveKeys ==
    [][\A p \in Procs :
         ClearStep(p) =>
           /\ DOMAIN store' = DOMAIN store
           /\ \A k \in AuthKeys : store'[k] = Absent
           /\ \A k \in DOMAIN store \ AuthKeys : store'[k] = store[k]
           /\ { k \in DOMAIN store : store'[k] # store[k] }
                = { k \in AuthKeys : Has(store[k]) }]_vars

\* An executor call that began with the three session keys stored was
\* answered 403: the credentials are gone, the other key is there.
C19_Witness ==
    \E p \in Procs :
        /\ top[p] = "fetch" /\ fx[p].pc = "ret" /\ fx[p].res.kind = "Forbidden"
        /\ fx[p].had = SessionKeys
        /\ AuthEmpty(store) /\ Has(store["app_pref"])

\* The call of frame f with the observer o in place of its own.
WithObserver(f, o) == [f EXCEPT !.obs = o, !.seen = << >>, !.warned = 0]
\* What a stretch b of a call leaves, the observer's own records aside: the
\* store, the refresh under way, the position and result of the call, the
\* requests sent.
Visible(b) == [b EXCEPT !.fx = WithObserver(@, "none")]
\* The stretch the call of frame f runs next, from store s at time t, when the
\* refresh it awaits has returned a.res or the upstream answers r.
Stretch(s, f, a, r, t) ==
    CASE f.pc = "rf1" -> DebugAfterRefresh1(s, f, a.res, t)
      [] f.pc = "rf2" -> DebugAfterRefresh2(s, f, a.res, t)
      [] f.pc = "rf3" -> DebugAfterRefresh3(s, f, a.res, t)
      [] OTHER -> DebugAfterResponse(s, f, r, t)

\* C20: at every point an executor call can be at, the next stretch of the
\* call gives the same store, the same requests, the same position and the
\* same result or error whether no observer was supplied, a recording one or
\* one that throws on every record, for each answer of the upstream; and so
\* does the first stretch of a call, for each token passed.  Calls that
\* differ in the observer only therefore stay alike step after step.
C20_ObserverIsInert ==
    \A p \in Procs :
      /\ Fresh(p) =>
            \A token \in HeldTokens, o \in Observers :
               Visible(DebugFetchBegin(store, DebugFetchCall(store, "me", token, << >>, now, o), now))
               = Visible(DebugFetchBegin(store, DebugFetchCall(store, "me", token, << >>, now, "none"), now))
      /\ top[p] = "fetch" /\ (fx[p].pc = "net" \/ \E site \in {"rf1", "rf2", "rf3"} : Returned(p, site)) =>
            \A r \in ApiResponses(fx[p].ep), o \in Observers :
               /\ Visible(Stretch(store, WithObserver(fx[p], o), au[p], r, now))
                  = Visible(Stretch(store, fx[p], au[p], r, now))
               /\ Stretch(store, fx[p], au[p], r, now).fx.res.kind # "Observer"
      /\ top[p] = "fetch" => /\ (fx[p].obs # "recording" => fx[p].seen = << >>)
                            /\ (fx[p].obs # "throwing" => fx[p].warned = 0)
                            /\ fx[p].res.kind # "Observer"

\* An observer that threw on each of the five records of a call: the request,
\* its 401 answer, the request made again, its 403 answer twice; the call
\* ended in Forbidden with the store cleared.
C20_Witness ==
    \E p \in Procs :
        /\ top[p] = "fetch" /\ fx[p].obs = "throwing" /\ fx[p].warned = 5
        /\ fx[p].pc = "ret" /\ fx[p].res.kind = "Forbidden" /\ fx[p].retries = 1
        /\ AuthEmpty(store)

\* C21: an executor call given a token, or finding one stored (the given one
\* first), makes no refresh to get a token and, unless the expiry check
\* refreshes, dispatches with that token; with neither it calls refresh()
\* first and dispatches with what a refresh returned; it fails with the
\* no-token error exactly when there was neither and that refresh failed, and
\* then no resource request has been dispatched.  (No store the program
\* leaves holds a refresh token without an access token, so the first
\* conjunct takes the stored access token away to follow a refresh that
\* returns one.)
C21_TokenResolution ==
    /\ \A tok \in {Some(1), Some(2)} :
         LET s0 == [store EXCEPT !["access_token"] = Absent]
             b == FetchBegin(s0, FetchCall(s0, "me", Absent, << >>, now), now)
             a == AfterRefresh1(s0, b.fx, Ok(tok, NoBody), now) IN
         /\ b.fx.pc = "rf1" /\ Dispatched(b.ev) = {}
         /\ a.fx.pc \in {"net", "rf2"} /\ a.fx.cur = tok
         /\ a.fx.pc = "net" => a.ev = << DispatchEvent("me", tok, << >>) >>
    /\ \A p \in Procs :
      top[p] = "fetch" /\ InFetch(p) =>
        LET D == Idx(p, "dispatch")
            R == Idx(p, "refreshCall")
            G == Idx(p, "granted") IN
        /\ Has(fx[p].tok0) =>
              /\ fx[p].res.kind # "NoToken"
              /\ fx[p].pc # "rf1"
              /\ (D # {} /\ \A r \in R : r > Least(D)) => log[p][Least(D)].tok = fx[p].tok0
        /\ ~Has(fx[p].tok0) =>
              /\ log[p] # << >> /\ log[p][1].e = "refreshCall"
              /\ \A d \in D : /\ \E g \in G : g < d
                              /\ log[p][d].tok = log[p][Greatest({ g \in G : g < d })].tok
              /\ (fx[p].pc = "ret" /\ G = {}) => fx[p].res.kind = "NoToken"
        /\ fx[p].res.kind = "NoToken" =>
              /\ ~Has(fx[p].tok0) /\ fx[p].had \cap {"access_token"} = {}
              /\ G = {} /\ D = {} /\ net[p] = {}
              /\ fx[p].pc = "ret" /\ ~fx[p].res.ok

\* A call with no token given and none stored, whose refresh failed.
C21_Witness ==
    \E p \in Procs :
        /\ top[p] = "fetch" /\ fx[p].pc = "ret" /\ fx[p].res.kind = "NoToken"
        /\ Idx(p, "refreshCall") # {} /\ net[p] = {}

\* C22: when the refresh made by the expiry check returns, the call either
\* fails at once with the session-expired error, nothing being dispatched
\* (the refresh failed), or dispatches the request with the token that refresh
\* returned, which is neither the token the caller gave nor the one the call
\* started with (the refresh succeeded).
C22_ProactiveRefresh ==
    [][\A p \in Procs :
         top[p] = "fetch" /\ Returned(p, "rf2") /\ fx'[p] # fx[p] =>
           IF au[p].res.ok
             THEN /\ fx'[p].pc = "net" /\ fx'[p].cur = au[p].res.tok
                  /\ log'[p] = Append(log[p], DispatchEvent(fx[p].ep, au[p].res.tok, fx[p].uris))
                  /\ au[p].res.tok # fx[p].tok0 /\ au[p].res.tok # fx[p].token
                  /\ au[p].res.tok # fx[p].cur
                  /\ store'["access_token"] = au[p].res.tok
             ELSE /\ fx'[p].pc = "ret" /\ fx'[p].res = Err("SessionExpired")
                  /\ log'[p] = log[p] /\ net'[p] = net[p]
                  /\ fx[p].retries = 0 => net'[p] = {}]_vars

\* A call that began with a full session inside the margin and whose
\* refresh was refused: session expired, nothing dispatched.
C22_Witness ==
    \E p \in Procs :
        /\ top[p] = "fetch" /\ fx[p].pc = "ret" /\ fx[p].res.kind = "SessionExpired"
        /\ fx[p].had = SessionKeys /\ fx[p].retries = 0
        /\ Has(fx[p].e0) /\ fx[p].t0 > Val(fx[p].e0) - SafetyMarginMs
        /\ Idx(p, "token") # {} /\ net[p] = {}

\* The error a status that is not a success is reported as.
KindOf(status) ==
    IF status = 403 THEN "Forbidden" ELSE IF status = 404 THEN "NotFound" ELSE "Upstream"

\* C23: whenever a dispatched request is in flight, an answer with a status
\* outside 2xx, other than a 401 to the first attempt, ends the call without
\* another dispatch or a refresh: 403 with the Forbidden error and the
\* credentials cleared, 404 with NotFound, any other with Upstream, the error
\* carrying the status and the last two leaving the store as it was; and a call
\* that has ended with one of these errors carries a status so classified.
C23_StatusClassification ==
    \A p \in Procs :
      top[p] = "fetch" =>
        /\ fx[p].pc = "net" =>
              \A st \in { x \in Statuses : ~ResponseOk(x) /\ ~(x = 401 /\ fx[p].retries = 0) } :
                 LET b == AfterResponse(store, fx[p], [net |-> TRUE, status |-> st, body |-> NoBody], now) IN
                 /\ b.fx.pc = "ret" /\ b.ev = << >> /\ b.au = AuIdle
                 /\ b.fx.res = ErrStatus(KindOf(st), st) /\ b.fx.res.body.status = st
                 /\ b.fx.retries = fx[p].retries
                 /\ b.store = IF st = 403 THEN clearAllTokens(store) ELSE store
        /\ (fx[p].pc = "ret" /\ fx[p].res.kind \in {"Forbidden", "NotFound", "Upstream"}) =>
              /\ ~fx[p].res.ok /\ ~ResponseOk(fx[p].res.body.status)
              /\ fx[p].res.kind = KindOf(fx[p].res.body.status)
              /\ fx[p].res.body.status = 401 => fx[p].retries = 1
              /\ fx[p].res.kind = "Forbidden" => AuthEmpty(store)
              /\ log[p][Len(log[p])].e = "dispatch"
              /\ Cardinality(Idx(p, "dispatch")) = fx[p].retries + 1

\* A first attempt answered 500: Upstream, one dispatch, the session kept.
C23_Witness ==
    \E p \in Procs :
        /\ top[p] = "fetch" /\ fx[p].pc = "ret" /\ fx[p].res.kind = "Upstream"
        /\ fx[p].res.body.status = 500 /\ fx[p].retries = 0
        /\ Cardinality(Idx(p, "dispatch")) = 1 /\ Has(store["access_token"])

\* C24 (as stated): a call whose request was answered 401 a second time, on
\* the re-dispatch, has failed and the credential store is cleared.
C24_RetryExhaustedClears ==
    \A p \in Procs :
        (top[p] = "fetch" /\ fx[p].pc = "ret" /\ fx[p].retries = 1
           /\ fx[p].res.body.status = 401)
          => ~fx[p].res.ok /\ AuthEmpty(store)

\* C25: an executor call whose requests are all answered returns or throws,
\* having dispatched the resource request at most twice; the second dispatch
\* belongs to the one retry, which only a 401 to the first dispatch starts: no
\* answer at all ends the call at once with the Network error, and so does
\* every other status with its own outcome.
C25_TerminatesWithinTwo ==
    /\ \A p \in Procs : (top[p] = "fetch") ~> (fx[p].pc = "ret" /\ fx[p].res.done)
    /\ [](\A p \in Procs :
            top[p] = "fetch" =>
              LET D == Idx(p, "dispatch") IN
              /\ Cardinality(D) <= 2 /\ fx[p].retries <= 1
              /\ Cardinality(D) = 2 => fx[p].retries = 1
              /\ fx[p].pc = "rf3" => fx[p].retries = 0 /\ Cardinality(D) = 1
              /\ fx[p].res.kind = "Network" => Cardinality(D) = fx[p].retries + 1
              /\ fx[p].pc = "net" =>
                    /\ LET b == AfterResponse(store, fx[p],
                                              [net |-> FALSE, status |-> 0, body |-> NoBody], now) IN
                       b.fx.pc = "ret" /\ b.fx.res = Err("Network") /\ b.ev = << >>
                    /\ \A r \in ApiResponses(fx[p].ep) :
                          LET b == AfterResponse(store, fx[p], r, now) IN
                          /\ b.fx.pc \in {"ret", "rf3"} /\ Dispatched(b.ev) = {}
                          /\ b.fx.pc = "rf3" <=> (r.net /\ r.status = 401 /\ fx[p].retries = 0))

\* A call that ended after its second dispatch got no answer.
C25_Witness ==
    \E p \in Procs :
        /\ top[p] = "fetch" /\ fx[p].pc = "ret" /\ fx[p].res.kind = "Network"
        /\ fx[p].retries = 1 /\ Cardinality(Idx(p, "dispatch")) = 2

\* C28 (as stated): at every issuance of a token, by exchangeCode or by
\* refresh, the stored expiry is the time of issuance + 1000 * L ms, L being
\* the expires_in of the response when it is a number and 3600 when it is
\* left out or is anything else (null and the empty string included).
C28_ExpiryDefault ==
    [][\A p \in Procs, fn \in {"exchange", "refresh"} :
         AuthReturn(p, fn, TRUE) =>
           LET x == au'[p].resp.exp
               L == IF x.k = "num" THEN x.v ELSE DefaultExpiresIn IN
           store'["token_expiry"] = Some(now + 1000 * L)]_vars

\* C29 (as stated): once exchangeCode has finished, with a token or with any
\* error, no code_verifier is stored.
C29_VerifierSingleUse ==
    \A p \in Procs :
        (top[p] = "auth" /\ au[p].fn = "exchange" /\ au[p].pc = "ret")
          => ~Has(store["code_verifier"])

\* The step is p entering its auth function fn (exchange or refresh, called
\* from outside or by the executor).
AuthEnter(p, fn) ==
    /\ au[p].pc # "tokenReq"
    /\ au'[p].fn = fn /\ au'[p].pc \in {"ret", "tokenReq"}
    /\ au'[p] # au[p] \/ log'[p] # log[p]

\* C30: exchangeCode entered with no verifier stored, and refresh entered with
\* no refresh token stored, return at once with the missing-verifier and the
\* no-refresh-token error, with the five credential keys cleared and without a
\* request to the token endpoint.
C30_MissingPrerequisite ==
    [][\A p \in Procs :
         /\ AuthEnter(p, "exchange") /\ ~Has(store["code_verifier"]) =>
               /\ au'[p].pc = "ret" /\ au'[p].res = Err("MissingVerifier")
               /\ log'[p] = << >>
               /\ AuthEmpty(store') /\ store' = clearAllTokens(store)
         /\ AuthEnter(p, "refresh") /\ ~Has(store["refresh_token"]) =>
               /\ au'[p].pc = "ret" /\ au'[p].res = Err("NoRefreshToken")
               /\ log'[p] # << >> /\ log'[p][Len(log'[p])] = RefreshCallEvent
               /\ AuthEmpty(store') /\ store' = clearAllTokens(store)]_vars

\* refresh() called with nothing stored: the error, no request.
C30_Witness ==
    \E p \in Procs :
        /\ top[p] = "auth" /\ au[p].fn = "refresh" /\ au[p].pc = "ret"
        /\ au[p].res.kind = "NoRefreshToken"
        /\ log[p] = << RefreshCallEvent >> /\ AuthEmpty(store)

(* ------------------ properties of the orchestrator -------------------- *)
RECURSIVE Concat(_)
Concat(chunks) == IF chunks = << >> THEN << >> ELSE Head(chunks) \o Concat(Tail(chunks))
InGenerate(p) == top[p] = "gen" /\ gp[p].fn = "generate"
Inserting(p) == top[p] = "gen" /\ gp[p].sent # << >>

C6_StaticFallback ==
    \A p \in Procs :
        InGenerate(p) /\ Has(gp[p].me) /\ MoodCheck(gp[p].mood) = "ok" /\ gp[p].res.done
          => /\ gp[p].at # "recommendations"
             /\ gp[p].res.kind \notin {"NoTracks", "NoTracksFound"}

\* C7: addTracksToPlaylist with n > 0 URIs makes ceil(n / 100) insertion calls,
\* call k + 1 only after call k has succeeded, each with at most 100 URIs and
\* all but the last with exactly 100; the chunks in call order concatenate to
\* the input list, and every insertion request dispatched carries the chunk of
\* the call in progress.
C7_ChunkedInsertion ==
    \A p \in Procs :
        Inserting(p) =>
          LET g == gp[p]
              n == Len(g.trackUris)
              calls == Len(g.sent)
              all == Concat(g.sent) IN
          /\ n > 0
          /\ g.succeeded <= calls /\ calls <= g.succeeded + 1
          /\ g.pc = "add" => calls = g.succeeded + 1
          /\ \A k \in 1..calls :
                /\ Len(g.sent[k]) >= 1 /\ Len(g.sent[k]) <= 100
                /\ k < calls => Len(g.sent[k]) = 100
          /\ Len(all) <= n /\ all = SubSeq(g.trackUris, 1, Len(all))
          /\ \A j \in 1..Len(log[p]) :
                log[p][j].e = "dispatch" /\ log[p][j].what = "tracks"
                  => log[p][j].uris = g.sent[calls]
          /\ g.res.done /\ g.res.ok =>
                /\ calls = (n + 99) \div 100
                /\ g.succeeded = calls
                /\ all = g.trackUris

C7_Witness ==
    \E p \in Procs :
        /\ top[p] = "gen" /\ gp[p].fn = "addTracks" /\ gp[p].res.done /\ gp[p].res.ok
        /\ Len(gp[p].trackUris) = MaxTracks
        /\ Len(gp[p].sent) = 3 /\ Len(gp[p].sent[3]) = MaxTracks - 200

\* The number of tracks the insertion calls that succeeded have inserted.
InsertedSoFar(p) == Len(Concat(SubSeq(gp[p].sent, 1, gp[p].succeeded)))

\* C8 (as stated): when an insertion call fails, no later insertion call is
\* made and the error that reaches the caller reports the number of tracks the
\* earlier calls inserted.
C8_ErrorReportsInserted ==
    \A p \in Procs :
        top[p] = "gen" /\ gp[p].res.done /\ gp[p].at = "add" /\ ~gp[p].res.ok
          => /\ Len(gp[p].sent) = gp[p].succeeded + 1
             /\ gp[p].res.tracksInsertedSoFar = Some(InsertedSoFar(p))

\* C8 (amended): when an insertion call returns failing, the function throws at
\* once: nothing more is dispatched, the failed call stays the last one made,
\* and the error that reaches the caller wraps the message of the failed call
\* and carries no count; the number inserted so far is written to the console
\* only (as the chunk start).
C8_FailureAbortsInsertion ==
    [][ /\ \A p \in Procs :
          Awaited(p, "add") /\ ~fx[p].res.ok
            => /\ gp'[p].pc = "ret" /\ gp'[p].at = "add"
               /\ gp'[p].res = Failure("TrackInsertFailed", fx[p].res.kind)
               /\ gp'[p].res.tracksInsertedSoFar = Absent
               /\ gp'[p].sent = gp[p].sent /\ gp'[p].succeeded = Len(gp[p].sent) - 1
               /\ gp'[p].chunkStart = Some(Len(Concat(SubSeq(gp[p].sent, 1, Len(gp[p].sent) - 1))))
               /\ log'[p] = log[p] /\ net'[p] = net[p] /\ fx'[p] = fx[p]
        /\ \A p \in Procs :
             top[p] = "gen" /\ gp[p].pc = "ret"
               => gp'[p] = gp[p] /\ log'[p] = log[p] /\ net'[p] = net[p] ]_vars

C8_Witness ==
    \E p \in Procs :
        /\ top[p] = "gen" /\ gp[p].fn = "addTracks" /\ Len(gp[p].trackUris) = MaxTracks
        /\ gp[p].res.done /\ gp[p].res.kind = "TrackInsertFailed"
        /\ Len(gp[p].sent) = 2 /\ gp[p].succeeded = 1 /\ gp[p].chunkStart = Some(100)

\* C9: a generatePlaylist call that succeeds returns the name "MoodPlayl.ist: " +
\* the mood with its first letter in upper case + " Vibe", which is the name sent
\* in the creation request, the external URL of the created playlist or none,
\* and as tracks the number k >= 1 of URIs that track sourcing gave, which is
\* the total number of URIs sent in the insertion calls.
C9_PlaylistResult ==
    \A p \in Procs :
        InGenerate(p) /\ gp[p].res.done /\ gp[p].res.ok =>
          LET g == gp[p]
              name == g.res.name
              m == g.mood IN
          /\ Len(name) = Len(m) + 2
          /\ name[1] = "MoodPlayl.ist: " /\ name[Len(name)] = " Vibe"
          /\ name[2] = charToUpperCase(m[1])
          /\ \A j \in 2..Len(m) : name[j + 1] = m[j]
          /\ name = g.sentName
          /\ g.res.url = g.playlistUrl
          /\ g.res.tracks = Len(g.trackUris) /\ g.res.tracks >= 1
          /\ g.res.tracks = Len(Concat(g.sent))

C9_Witness ==
    \E p \in Procs :
        /\ InGenerate(p) /\ gp[p].res.done /\ gp[p].res.ok
        /\ gp[p].res.name = << "MoodPlayl.ist: ", "C", "h", "i", "l", "l", " Vibe" >>
        /\ gp[p].res.tracks = MaxRespTracks /\ Has(gp[p].res.url)
\* C26 (as stated): track sourcing is a chain of attempts in which a failing
\* attempt is not fatal and a later attempt is made when the earlier ones gave
\* no track: when the recommendations request of a generatePlaylist call has
\* failed or brought no track URI, the call does not end there but goes on
\* to a further attempt; when it brought one or more, these are the tracks
\* returned.
C26_FallbackChain ==
    [][\A p \in Procs :
         InGenerate(p) /\ Awaited(p, "recommendations") /\ gp'[p] # gp[p] =>
           IF fx[p].res.ok /\ Uris(fx[p].res.body.items) # << >>
             THEN gp'[p].trackUris = Uris(fx[p].res.body.items)
             ELSE gp'[p].pc # "ret" /\ ~gp'[p].res.done]_vars

\* C27 (as stated): the URI list track sourcing returns, and the track count of
\* a playlist result, never exceed 25.
C27_AtMost25 ==
    \A p \in Procs :
        InGenerate(p) =>
          /\ Len(gp[p].trackUris) <= 25
          /\ gp[p].res.done /\ gp[p].res.ok => gp[p].res.tracks <= 25

\* C31 (as stated): when generatePlaylist has failed with the invalid-mood
\* error, a no-tracks error, the error of a creation that gave no id, or the
\* track-insertion error, every one of access token, refresh token and
\* expiry that was stored at the call is still stored.
C31_FailureKeepsCredentials ==
    \A p \in Procs :
        (InGenerate(p) /\ gp[p].res.done
           /\ gp[p].res.kind \in {"InvalidMood", "NoTracks", "NoTracksFound", "CreateFailed",
                                  "TrackInsertFailed"})
          => \A k \in gp[p].had : Has(store[k])

\* C32 (as stated): when a generation started from the page has failed, the page
\* shows the message of the thrown Error unchanged and renders a button that
\* starts the login flow, also when the failure emptied the credential store;
\* and generatePlaylist was called once per click on the generate button.
GenerationFailed == ~ui.pending /\ Has(ui.thrown) /\ Has(ui.accessToken)
ShownMessage(u) == IF Has(u.localError) THEN Val(u.localError)[Len(Val(u.localError))] ELSE << >>
ReLogin == {"handleTryLoginAgain", "handleSpotifyLogin"}
C32_FailureShownReLoginOffered ==
    /\ ui.invoked = ui.clicks
    /\ GenerationFailed =>
         /\ ShownMessage(ui) = <<Val(ui.thrown).kind, Val(ui.thrown).cause>>
         /\ Offered(ui) \cap ReLogin # {}

\* C33: in every state of two callers whose logins, exchanges, refreshes, executor
\* calls and clearAllTokens calls overlap at their awaits, a stored access_token
\* comes with a stored token_expiry and a stored refresh_token with a stored
\* access_token.
C33_SessionKeysTogether ==
    /\ Has(store["access_token"]) => Has(store["token_expiry"])
    /\ Has(store["refresh_token"]) => Has(store["access_token"])
\* A refresh has stored its tokens while the other caller's token request is
\* in flight.
C33_Witness ==
    /\ Has(store["access_token"]) /\ Has(store["refresh_token"])
    /\ \E p, q \in DOMAIN top :
         /\ p # q
         /\ au[p].fn = "refresh" /\ au[p].pc = "ret" /\ au[p].res.ok
         /\ au[q].pc = "tokenReq"

\* C34 (as stated): in every state a stored pkce_state comes with a stored
\* code_verifier, also when a clearAllTokens or a second handleSpotifyLogin runs
\* while a handleSpotifyLogin is suspended at its hash.
C34_StateImpliesVerifier ==
    Has(store["pkce_state"]) => Has(store["code_verifier"])

\* C35 (as stated): once a caller has run clearAllTokens or handleSpotifyLogin and
\* no exchange has succeeded, no access_token, refresh_token or token_expiry is
\* stored, also when a refresh or an executor call of the other caller that
\* started earlier completes afterwards.
LoggedOut ==
    /\ \E q \in DOMAIN top : top[q] = "auth" /\ au[q].fn \in {"clear", "login"}
    /\ \A p \in DOMAIN top : ~(au[p].fn = "exchange" /\ au[p].res.ok)
C35_LogoutIsFinal ==
    LoggedOut => \A k \in SessionKeys : ~Has(store[k])

\* C36 (as stated): when two refreshes overlap (both sent the refresh token that
\* the answer to one of them replaced) and one succeeds while the request of the
\* other fails, then after both have completed the store holds the access token
\* the successful one was issued.
SentCredentials(p) == { log[p][i].tok : i \in Idx(p, "token") }
Overlapped(p, q) ==
    /\ p # q
    /\ top[p] = "auth" /\ au[p].fn = "refresh" /\ au[p].pc = "ret"
    /\ top[q] = "auth" /\ au[q].fn = "refresh" /\ au[q].pc = "ret"
    /\ SentCredentials(p) # {} /\ SentCredentials(p) = SentCredentials(q)
    /\ Has(au[p].resp.rt)
C36_FailedRefreshKeepsTokens ==
    \A p, q \in DOMAIN top :
        (Overlapped(p, q) /\ au[p].res.ok /\ ~au[q].res.ok)
          => store["access_token"] = au[p].res.tok

\* C37: one call of spotifyFetch calls refreshAccessToken at most four times,
\* whatever lifetimes the token endpoint declares.
RefreshCalls(p) == Cardinality(Idx(p, "refreshCall"))
C37_AtMostFourRefreshes ==
    \A p \in Procs : InFetch(p) => RefreshCalls(p) <= 4
\* A call that refreshed for near-expiry, on the 401 and for near-expiry again
\* because the token it was just issued lives 5 seconds or less.
C37_Witness ==
    \E p \in Procs :
        /\ InFetch(p) /\ fx[p].retries = 1 /\ fx[p].pc = "ret"
        /\ RefreshCalls(p) >= 3
        /\ \E i \in Idx(p, "granted") : log[p][i].n <= SafetyMarginMs

\* C38 (as stated): an exchangeCodeForToken called while a pkce_state is stored
\* sends its token request only if the state the redirect returned equals the
\* stored one; with no returned state no request is sent.
C38_ExchangeOnlyOnMatchingState ==
    \A p \in Procs :
        (au[p].fn = "exchange" /\ Has(au[p].ss) /\ Idx(p, "token") # {})
          => au[p].rs = au[p].ss

\* The steps of generatePlaylist in order: the /me of line 228, the track
\* sourcing, the /me and the creation request of createNewPlaylist, the
\* insertion calls; and the requests that can have been dispatched by the
\* time the function is at a step.
Rank(pc) ==
    CASE pc = "me" -> 1 [] pc = "recommendations" -> 2 [] pc = "createMe" -> 3
      [] pc = "create" -> 4 [] pc = "add" -> 5 [] OTHER -> 0
RequestsUpTo(pc) ==
    CASE pc = "me" -> {"me"}
      [] pc \in {"recommendations", "createMe"} -> {"me", "recommendations"}
      [] pc = "create" -> {"me", "recommendations", "create"}
      [] pc = "add" -> {"me", "recommendations", "create", "tracks"}
      [] OTHER -> {}
\* The request of a step (not dispatched when the executor fails before it).
Endpoint(pc) ==
    CASE pc \in {"me", "createMe"} -> "me" [] pc = "add" -> "tracks" [] OTHER -> pc
\* The step p's generatePlaylist is at, or returned at.
StepOf(g) == IF g.pc = "ret" THEN g.at ELSE g.pc

\* C18: generatePlaylist goes through the profile fetch, track sourcing,
\* playlist creation and the insertion calls in that order, moving on from a
\* step only when its request has returned successfully, and no request of a
\* later step is dispatched before; a step that fails ends the call with an
\* error at that step, with nothing more dispatched; a playlist result comes
\* only from the last insertion call succeeding, after all of them have.
C18_ResultAfterAllSteps ==
    /\ [](\A p \in Procs :
            InGenerate(p) =>
              LET g == gp[p] IN
              /\ net[p] \subseteq RequestsUpTo(StepOf(g))
              /\ RequestsUpTo(StepOf(g)) \ net[p] \subseteq {Endpoint(StepOf(g))}
              /\ g.res.done <=> g.pc = "ret"
              /\ g.res.done /\ g.res.ok =>
                    /\ g.at = "add" /\ Has(g.me) /\ Has(g.playlistId)
                    /\ Len(g.trackUris) >= 1
                    /\ net[p] = {"me", "recommendations", "create", "tracks"}
                    /\ g.succeeded = Len(g.sent)
                    /\ Concat(g.sent) = g.trackUris
              /\ g.res.done /\ ~g.res.ok => g.res.name = << >> /\ g.res.tracks = 0)
    /\ [][ \A p \in Procs :
             InGenerate(p) /\ gp'[p] # gp[p] =>
               /\ Awaited(p, gp[p].pc)
               /\ \/ gp'[p].pc = "ret"
                  \/ Rank(gp'[p].pc) = Rank(gp[p].pc) + 1
                  \/ gp[p].pc = "add" /\ gp'[p].pc = "add"
               /\ gp'[p].pc # "ret" => fx[p].res.ok
               /\ gp'[p].pc = "ret" /\ gp'[p].res.ok => fx[p].res.ok /\ gp[p].pc = "add"
               /\ ~fx[p].res.ok =>
                    /\ gp'[p].pc = "ret" /\ gp'[p].at = gp[p].pc /\ ~gp'[p].res.ok
                    /\ net'[p] = net[p] /\ log'[p] = log[p] ]_vars

\* A call whose playlist creation failed after profile and sourcing succeeded.
C18_Witness ==
    \E p \in Procs :
        /\ InGenerate(p) /\ gp[p].res.done /\ ~gp[p].res.ok /\ gp[p].at = "create"
        /\ Len(gp[p].trackUris) >= 1 /\ ~fx[p].res.ok
        /\ net[p] = {"me", "recommendations", "create"}
====
